---- MODULE Spec2Model ----
(***************************************************************************)
(* VortexConfig: the parser context (VCFG_Parser), the scanner primitives, *)
(* the value / array / object / section parsers, vcfg_parse and the query  *)
(* API of include/vcfg/VortexConfig.h.                                     *)
(*                                                                         *)
(* Bytes are one-character strings, a C string is a sequence of bytes, a   *)
(* pointer into the configuration buffer is an offset from its start (0 is *)
(* the first byte).  Every scanner and parser function takes the context   *)
(* record parserObj and a pointer, and yields the pointer it leaves in     *)
(* *dataPtr; the byte count the C function returns is the difference.      *)
(***************************************************************************)
EXTENDS Integers, Sequences, FiniteSets, TLC

VARIABLES
    m_configBuffer,        \* the memory m_configBuffer points to, or NullPtr
    m_configBufferLength,  \* the length the caller declared
    m_parsedData,          \* the section array (<<>> when the pointer is null)
    m_sectionCount,
    pc,                    \* "idle", "parsing" (inside vcfg_parse), "parsed", "crashed"
    internalDataPtr,       \* vcfg_parse's cursor
    frames,                \* the open parsearray / parseobject calls, outermost first
    ret,                   \* the last API call and what it returned
    bufferOwner,           \* who allocated the configuration buffer: "none" (no
                           \* buffer), "caller" (vcfg_set_buffer), "library" (vcfg_open)
    m_currentConfigFile    \* NullPtr, or the open FILE

vars == <<m_configBuffer, m_configBufferLength, m_parsedData, m_sectionCount,
          pc, internalDataPtr, frames, ret, bufferOwner, m_currentConfigFile>>

----------------------------------------------------------------------------
(* Bytes and C strings *)

NUL == "NUL"
NullPtr == <<"NULL">>
BS == "BS"
VT == "VT"

VCFG_IS_WHITESPACE(ch) == ch \in {" ", BS, "\t", "\n", VT, "\f", "\r"}

ArraySentinel == <<"[", "a", "r", "r", "a", "y", "]">>
ObjectSentinel == <<"{", "o", "b", "j", "e", "c", "t", "}">>

\* *(m_configBuffer + p): bytes past the memory the model holds read as NUL
Byte(parserObj, p) ==
    IF p < Len(parserObj.m_configBuffer) THEN parserObj.m_configBuffer[p + 1] ELSE NUL

dataEndPtr(parserObj) == parserObj.m_configBufferLength

\* memcpy(dst, m_configBuffer + start, count)
vcfginternal_memcpy(parserObj, start, count) ==
    [i \in 1..count |-> Byte(parserObj, start + i - 1)]

Digits == <<"0", "1", "2", "3", "4", "5", "6", "7", "8", "9">>

RECURSIVE DigitsReversed(_)
DigitsReversed(number) ==
    IF number = 0 THEN <<>>
    ELSE <<Digits[(number % 10) + 1]>> \o DigitsReversed(number \div 10)

RECURSIVE SwapEnds(_, _, _)
SwapEnds(result, i, pos) ==
    IF i < pos
    THEN SwapEnds([result EXCEPT ![i + 1] = result[pos + 1], ![pos + 1] = result[i + 1]],
                  i + 1, pos - 1)
    ELSE result

vcfginternal_unsignednumtostr(number) ==
    IF number = 0 THEN <<"0">>
    ELSE LET r == DigitsReversed(number) IN SwapEnds(r, 0, Len(r) - 1)

\* 0 when equal; the two null-pointer returns of the libc variant
vcfginternal_strcmp(str1, str2) ==
    IF str1 = str2 THEN 0
    ELSE IF str1 = NullPtr \/ str2 = NullPtr THEN -999999
    ELSE 1

----------------------------------------------------------------------------
(* Scanner primitives *)

RECURSIVE vcfginternal_skipwhitespace(_, _)
vcfginternal_skipwhitespace(parserObj, p) ==
    IF VCFG_IS_WHITESPACE(Byte(parserObj, p)) /\ p < dataEndPtr(parserObj)
    THEN vcfginternal_skipwhitespace(parserObj, p + 1)
    ELSE p

\* while ((p < dataEndPtr) && (*p != ch)) ++p;
RECURSIVE SkipUntil(_, _, _)
SkipUntil(parserObj, p, ch) ==
    IF p < dataEndPtr(parserObj) /\ Byte(parserObj, p) # ch
    THEN SkipUntil(parserObj, p + 1, ch)
    ELSE p

vcfginternal_skiplinecomment(parserObj, p) ==
    IF Byte(parserObj, p) # "/" \/ Byte(parserObj, p + 1) # "/" THEN p
    ELSE LET q == SkipUntil(parserObj, p, "\n")
         IN  IF Byte(parserObj, q) = "\n" THEN q + 1 ELSE q

RECURSIVE BlockCommentScan(_, _)
BlockCommentScan(parserObj, p) ==
    IF p < dataEndPtr(parserObj)
    THEN IF Byte(parserObj, p) = "*" /\ Byte(parserObj, p + 1) = "/"
         THEN p + 2
         ELSE BlockCommentScan(parserObj, p + 1)
    ELSE p

vcfginternal_skipblockcomment(parserObj, p) ==
    IF Byte(parserObj, p) # "/" \/ Byte(parserObj, p + 1) # "*" THEN p
    ELSE BlockCommentScan(parserObj, p + 2)

\* a variant that knows line comments only
vcfginternal_skipcomments_LineOnly(parserObj, p) ==
    vcfginternal_skiplinecomment(parserObj, p)

vcfginternal_skipcomments(parserObj, p) ==
    vcfginternal_skipblockcomment(parserObj, vcfginternal_skiplinecomment(parserObj, p))

----------------------------------------------------------------------------
(* The tree: a section is [name, keys], a key node is [name, value,         *)
(* children]; keyCount and childCount are the lengths of keys and children. *)

NewKey(name, value) == [name |-> name, value |-> value, children |-> <<>>]

\* The parser only ever appends to the node it is filling, which is the last
\* child of the last child ... of the current section's last key: depth 0
\* appends to keys itself (realloc of the array, then the new last entry).
RECURSIVE AppendChild(_, _, _)
AppendChild(keys, depth, child) ==
    IF depth = 0 THEN Append(keys, child)
    ELSE [keys EXCEPT ![Len(keys)].children = AppendChild(@, depth - 1, child)]

\* childCount of the node being filled at that depth
RECURSIVE ChildCountAt(_, _)
ChildCountAt(keys, depth) ==
    IF depth = 0 THEN Len(keys)
    ELSE ChildCountAt(keys[Len(keys)].children, depth - 1)

----------------------------------------------------------------------------
(* Parser functions.  A parse state st is                                  *)
(*   [ptr, data, count, frames, running]                                   *)
(* ptr = the cursor, data / count = m_parsedData / m_sectionCount,         *)
(* frames = the open container calls, running = vcfg_parse has not         *)
(* returned.                                                               *)

\* the key / value scanning loop: stops at the buffer end, at the closing
\* quote of a quoted token, or at a terminator of a bare one
RECURSIVE TokenEnd(_, _, _, _)
TokenEnd(parserObj, p, inQuotes, terminators) ==
    IF p < dataEndPtr(parserObj)
       /\ ~(inQuotes /\ Byte(parserObj, p) = "\"")
       /\ ~(~inQuotes /\ (VCFG_IS_WHITESPACE(Byte(parserObj, p))
                          \/ Byte(parserObj, p) \in terminators))
    THEN TokenEnd(parserObj, p + 1, inQuotes, terminators)
    ELSE p

\* a variant that keeps the opening quote in the token
ScanToken_KeepingQuote(parserObj, p, terminators) ==
    LET inQuotes == Byte(parserObj, p) = "\""
        stop == TokenEnd(parserObj, IF inQuotes THEN p + 1 ELSE p, inQuotes, terminators)
    IN  [start |-> p,
         length |-> stop - p,
         ptr |-> IF inQuotes /\ stop < dataEndPtr(parserObj) THEN stop + 1 ELSE stop]

\* the token read at p: where it starts, its length, and the pointer after
\* it (past the closing quote when there is one)
ScanToken(parserObj, p, terminators) ==
    LET inQuotes == Byte(parserObj, p) = "\""
        start == IF inQuotes THEN p + 1 ELSE p
        stop == TokenEnd(parserObj, start, inQuotes, terminators)
    IN  [start |-> start,
         length |-> stop - start,
         ptr |-> IF inQuotes /\ stop < dataEndPtr(parserObj) THEN stop + 1 ELSE stop]

\* a variant in which "=" ends a bare value as well
ValueTerminators_WithEquals == {",", ";", "="}

ValueTerminators == {",", ";"}
KeyTerminators == {"="}

\* [ptr, value]: value stays null when nothing was read
vcfginternal_parsevalue(parserObj, p) ==
    LET t == ScanToken(parserObj, p, ValueTerminators)
    IN  [ptr |-> t.ptr,
         value |-> IF t.length = 0 THEN NullPtr
                   ELSE vcfginternal_memcpy(parserObj, t.start, t.length)]

\* while ((*p != ch) && (p < dataEndPtr)) ++p;
RECURSIVE SectionNameEnd(_, _)
SectionNameEnd(parserObj, p) ==
    IF Byte(parserObj, p) # "]" /\ p < dataEndPtr(parserObj)
    THEN SectionNameEnd(parserObj, p + 1)
    ELSE p

\* a variant that creates a section for an empty name as well
vcfginternal_createsection_AllowingEmpty(parserObj, p) ==
    IF Byte(parserObj, p) # "[" THEN [ptr |-> p, created |-> FALSE, name |-> NullPtr]
    ELSE LET stop == SectionNameEnd(parserObj, p + 1)
             nameLength == stop - (p + 1)
             q == IF Byte(parserObj, stop) = "]" THEN stop + 1 ELSE stop
         IN  [ptr |-> q,
              created |-> TRUE,
              name |-> vcfginternal_memcpy(parserObj, q - nameLength - 1, nameLength)]

\* [ptr, created, name]: the header's bytes are consumed even when no
\* section is created; the name is copied from ptr - nameLength - 1
vcfginternal_createsection(parserObj, p) ==
    IF Byte(parserObj, p) # "[" THEN [ptr |-> p, created |-> FALSE, name |-> NullPtr]
    ELSE LET stop == SectionNameEnd(parserObj, p + 1)
             nameLength == stop - (p + 1)
             q == IF Byte(parserObj, stop) = "]" THEN stop + 1 ELSE stop
         IN  [ptr |-> q,
              created |-> nameLength # 0,
              name |-> IF nameLength = 0 THEN NullPtr
                       ELSE vcfginternal_memcpy(parserObj, q - nameLength - 1, nameLength)]

NewSection(name) == [name |-> name, keys |-> <<>>]

Frame(kind) == [kind |-> kind, arrayIndex |-> 0]

\* a variant that leaves the value of the array's node unset
vcfginternal_parsearray_begin_NoSentinel(parserObj, p) ==
    [ptr |-> vcfginternal_skipwhitespace(parserObj, p + 1),
     value |-> NullPtr,
     push |-> <<Frame("array")>>]

\* parsearray up to its loop: past the "[", the sentinel value, whitespace
vcfginternal_parsearray_begin(parserObj, p) ==
    [ptr |-> vcfginternal_skipwhitespace(parserObj, p + 1),
     value |-> ArraySentinel,
     push |-> <<Frame("array")>>]

\* parseobject up to its loop
vcfginternal_parseobject_begin(parserObj, p) ==
    [ptr |-> vcfginternal_skipwhitespace(parserObj, p + 1),
     value |-> ObjectSentinel,
     push |-> <<Frame("object")>>]

\* the dispatch on the first byte of a value, shared by the three keyvalue
\* functions: [ptr, value, push]; push holds the frame of a container call
\* that is now open, and is empty for a scalar
ParseValueAt(parserObj, p) ==
    IF Byte(parserObj, p) = "{" THEN vcfginternal_parseobject_begin(parserObj, p)
    ELSE IF Byte(parserObj, p) = "[" THEN vcfginternal_parsearray_begin(parserObj, p)
    ELSE LET v == vcfginternal_parsevalue(parserObj, p)
         IN  [ptr |-> v.ptr, value |-> v.value, push |-> <<>>]

Closer(kind) == IF kind = "array" THEN "]" ELSE "}"

\* a variant that goes on to the next element without a comma
AfterElement_CommaOptional(parserObj, p, kind) ==
    LET q == vcfginternal_skipwhitespace(parserObj, p)
    IN  [ptr |-> IF Byte(parserObj, q) = "," THEN q + 1 ELSE q, comma |-> TRUE]

\* after an element or pair that consumed bytes: whitespace, then either the
\* comma (the loop continues) or everything up to the closing bracket
AfterElement(parserObj, p, kind) ==
    LET q == vcfginternal_skipwhitespace(parserObj, p)
    IN  IF Byte(parserObj, q) = ","
        THEN [ptr |-> q + 1, comma |-> TRUE]
        ELSE [ptr |-> SkipUntil(parserObj, q, Closer(kind)), comma |-> FALSE]

\* the frames with the innermost array's index incremented
NextIndex(fs) == [fs EXCEPT ![Len(fs)].arrayIndex = @ + 1]

\* a variant that always appends below the root section
WithChild_InRoot(st, child) ==
    [st.data EXCEPT ![1].keys = AppendChild(@, Len(st.frames), child)]

\* the current section's keys with a child appended to the node being filled
WithChild(st, child) ==
    [st.data EXCEPT ![st.count].keys = AppendChild(@, Len(st.frames), child)]

\* parsearray_keyvalue at ptr (nothing left to skip before it), then the rest
\* of the array loop's body when the element was a scalar
vcfginternal_parsearray_keyvalue(parserObj, st) ==
    LET f == st.frames[Len(st.frames)]
        keyName == vcfginternal_unsignednumtostr(f.arrayIndex)
        q == vcfginternal_skipwhitespace(parserObj,
                 vcfginternal_skipwhitespace(parserObj, st.ptr))
        v == ParseValueAt(parserObj, q)
        data == WithChild(st, NewKey(keyName, v.value))
    IN  IF v.push # <<>>
        THEN [st EXCEPT !.ptr = v.ptr, !.data = data, !.frames = @ \o v.push]
        ELSE IF v.ptr - st.ptr # 0
        THEN LET a == AfterElement(parserObj, v.ptr, "array")
             IN  [st EXCEPT !.ptr = a.ptr, !.data = data,
                            !.frames = IF a.comma THEN NextIndex(@) ELSE @]
        ELSE [st EXCEPT !.data = data]

\* the key of a pair: [ptr, name, length]; ptr is past the key and the
\* whitespace after it
ScanKey(parserObj, p) ==
    LET t == ScanToken(parserObj, p, KeyTerminators)
    IN  [ptr |-> vcfginternal_skipwhitespace(parserObj, t.ptr),
         length |-> t.length,
         name |-> vcfginternal_memcpy(parserObj, t.start, t.length)]

\* parseobject_keyvalue at ptr, then the rest of the object loop's body
vcfginternal_parseobject_keyvalue(parserObj, st) ==
    LET k == ScanKey(parserObj, st.ptr)
    IN  IF k.length = 0 \/ Byte(parserObj, k.ptr) # "="
        THEN IF k.ptr - st.ptr # 0
             THEN [st EXCEPT !.ptr = AfterElement(parserObj, k.ptr, "object").ptr]
             ELSE st
        ELSE LET v == ParseValueAt(parserObj,
                          vcfginternal_skipwhitespace(parserObj, k.ptr + 1))
                 data == WithChild(st, NewKey(k.name, v.value))
             IN  IF v.push # <<>>
                 THEN [st EXCEPT !.ptr = v.ptr, !.data = data, !.frames = @ \o v.push]
                 ELSE [st EXCEPT !.ptr = AfterElement(parserObj, v.ptr, "object").ptr,
                                 !.data = data]

\* parsekeyvalue at ptr: [st, consumed]
vcfginternal_parsekeyvalue(parserObj, st) ==
    LET k == ScanKey(parserObj, st.ptr)
    IN  IF k.length = 0 \/ Byte(parserObj, k.ptr) # "="
        THEN [st EXCEPT !.ptr = k.ptr]
        ELSE LET v == ParseValueAt(parserObj,
                          vcfginternal_skipwhitespace(parserObj, k.ptr + 1))
             IN  [st EXCEPT !.ptr = v.ptr,
                            !.data = WithChild(st, NewKey(k.name, v.value)),
                            !.frames = @ \o v.push]

\* the array loop's condition, and the object loop's
InContainerLoop(parserObj, st) ==
    /\ st.frames # <<>>
    /\ st.ptr < dataEndPtr(parserObj)
    /\ Byte(parserObj, st.ptr) # Closer(st.frames[Len(st.frames)].kind)

\* one pass of the array loop's body
vcfginternal_parsearray_iter(parserObj, st) ==
    IF vcfginternal_skipwhitespace(parserObj, st.ptr) # st.ptr
    THEN [st EXCEPT !.ptr = vcfginternal_skipwhitespace(parserObj, st.ptr)]
    ELSE IF vcfginternal_skipcomments(parserObj, st.ptr) # st.ptr
    THEN [st EXCEPT !.ptr = vcfginternal_skipcomments(parserObj, st.ptr)]
    ELSE vcfginternal_parsearray_keyvalue(parserObj, st)

\* one pass of the object loop's body
vcfginternal_parseobject_iter(parserObj, st) ==
    IF vcfginternal_skipwhitespace(parserObj, st.ptr) # st.ptr
    THEN [st EXCEPT !.ptr = vcfginternal_skipwhitespace(parserObj, st.ptr)]
    ELSE IF vcfginternal_skipcomments(parserObj, st.ptr) # st.ptr
    THEN [st EXCEPT !.ptr = vcfginternal_skipcomments(parserObj, st.ptr)]
    ELSE vcfginternal_parseobject_keyvalue(parserObj, st)

\* a container loop has ended: parsearray / parseobject returns the bytes it
\* consumed (never 0: the opening bracket is among them) through the keyvalue
\* function that called it, and the enclosing loop goes on after the element
ContainerReturn(parserObj, st) ==
    LET outer == SubSeq(st.frames, 1, Len(st.frames) - 1)
    IN  IF outer = <<>> THEN [st EXCEPT !.frames = outer]
        ELSE LET kind == outer[Len(outer)].kind
                 a == AfterElement(parserObj, st.ptr, kind)
             IN  [st EXCEPT !.ptr = a.ptr,
                            !.frames = IF a.comma /\ kind = "array"
                                       THEN NextIndex(outer) ELSE outer]

\* one pass of vcfg_parse's loop body
vcfg_parse_iter(parserObj, st) ==
    IF vcfginternal_skipwhitespace(parserObj, st.ptr) # st.ptr
    THEN [st EXCEPT !.ptr = vcfginternal_skipwhitespace(parserObj, st.ptr)]
    ELSE IF vcfginternal_skipcomments(parserObj, st.ptr) # st.ptr
    THEN [st EXCEPT !.ptr = vcfginternal_skipcomments(parserObj, st.ptr)]
    ELSE LET sec == vcfginternal_createsection(parserObj, st.ptr)
             kv == vcfginternal_parsekeyvalue(parserObj, st)
         IN  IF sec.ptr - st.ptr # 0
             THEN IF sec.created
                  THEN [st EXCEPT !.ptr = sec.ptr,
                                  !.data = Append(@, NewSection(sec.name)),
                                  !.count = @ + 1]
                  ELSE [st EXCEPT !.ptr = sec.ptr]
             ELSE IF kv.ptr - st.ptr # 0 THEN kv
             ELSE [st EXCEPT !.running = FALSE]

\* vcfg_parse after its argument check and the root section's calloc
vcfg_parse_start == 
    [ptr |-> 0, data |-> <<NewSection(NullPtr)>>, count |-> 1, frames |-> <<>>,
     running |-> TRUE]

\* the next step of a running parse
ParseStep(parserObj, st) ==
    IF st.frames # <<>>
    THEN IF InContainerLoop(parserObj, st)
         THEN IF st.frames[Len(st.frames)].kind = "array"
              THEN vcfginternal_parsearray_iter(parserObj, st)
              ELSE vcfginternal_parseobject_iter(parserObj, st)
         ELSE ContainerReturn(parserObj, st)
    ELSE IF st.ptr < dataEndPtr(parserObj) THEN vcfg_parse_iter(parserObj, st)
    ELSE [st EXCEPT !.running = FALSE]

----------------------------------------------------------------------------
(* Query API.  A section pointer is the section's index in m_parsedData, a  *)
(* node pointer is <<section index, key index>>; 0 and NullNode are null.  *)

NullNode == <<0, 0>>

\* a variant that returns the last entry of that name
FirstNamed_Latest(entries, count, name) ==
    IF \E i \in 1..count : vcfginternal_strcmp(name, entries[i].name) = 0
    THEN CHOOSE i \in 1..count :
            /\ vcfginternal_strcmp(name, entries[i].name) = 0
            /\ \A j \in (i + 1)..count : vcfginternal_strcmp(name, entries[j].name) # 0
    ELSE 0

\* the index of the first entry whose name compares equal to name, 0 if none
\* (the loop of every getter: for (i = 0; i < count; i++) if (strcmp ...))
FirstNamed(entries, count, name) ==
    IF \E i \in 1..count : vcfginternal_strcmp(name, entries[i].name) = 0
    THEN CHOOSE i \in 1..count :
            /\ vcfginternal_strcmp(name, entries[i].name) = 0
            /\ \A j \in 1..(i - 1) : vcfginternal_strcmp(name, entries[j].name) # 0
    ELSE 0

vcfg_get_section(data, count, sectionName) == FirstNamed(data, count, sectionName)

\* vcfg_get_node once the section pointer is known not to be null
NodeInSection(data, section, keyName) ==
    LET i == FirstNamed(data[section].keys, Len(data[section].keys), keyName)
    IN  IF i = 0 THEN NullNode ELSE <<section, i>>

\* vcfg_get_string once the section pointer is known not to be null
StringInSection(data, section, keyName) ==
    LET i == FirstNamed(data[section].keys, Len(data[section].keys), keyName)
    IN  IF i = 0 THEN NullPtr ELSE data[section].keys[i].value

\* section->keyCount is read whatever vcfg_get_section returned, and
\* m_parsedData[i].name whatever m_parsedData is
DereferencesNull(data, count, sectionName) ==
    \/ count > Len(data)
    \/ vcfg_get_section(data, count, sectionName) = 0

----------------------------------------------------------------------------
(* Inputs *)

MaxRawLen == 3
MaxChildren == 4

\* every buffer of at most MaxRawLen bytes over these
RawAlphabet == {"k", "=", "[", "{", ",", " ", "\""}
RawInputs == UNION { [1..n -> RawAlphabet] : n \in 0..MaxRawLen }

\* sequences of tokens, and their rendering with a separator between them
RECURSIVE Join(_, _)
Join(parts, sep) ==
    IF parts = <<>> THEN <<>>
    ELSE IF Len(parts) = 1 THEN parts[1]
    ELSE parts[1] \o sep \o Join(Tail(parts), sep)

SeqsUpTo(S, lo, hi) == UNION { [1..n -> S] : n \in lo..hi }

NL == <<"\n">>
Assign == <<" ", "=", " ">>
CommaSp == <<",", " ">>
SectionS == <<"[", "S", "]", "\n">>
SectionT == <<"[", "T", "]", "\n">>
OtherStatement == <<"j", " ", "=", " ", "w">>

\* ---- statements with a bare value: k = v
MaxTokLen == 2
BareAlphabet == {"v", "=", "]", "/", "\""}
BareTokens == { t \in SeqsUpTo(BareAlphabet, 1, MaxTokLen) : t[1] # "\"" }
AssignForms == { Assign, <<"=">> }
Prefixes == { <<>>, SectionS }
Suffixes == { <<>>, NL \o OtherStatement, <<",">> }

ScalarCases ==
    [value : BareTokens, assign : AssignForms, prefix : Prefixes, suffix : Suffixes]

RenderScalar(c) == c.prefix \o <<"k">> \o c.assign \o c.value \o c.suffix

\* ---- statements with a quoted value: k = "..."
QuotedAlphabet == {"a", " ", ",", ";", "="}
QuotedCases ==
    [inner : SeqsUpTo(QuotedAlphabet, 0, MaxTokLen), assign : {Assign},
     prefix : {<<>>}, suffix : Suffixes]

RenderQuoted(c) ==
    c.prefix \o <<"k">> \o c.assign \o <<"\"">> \o c.inner \o <<"\"">> \o c.suffix

\* ---- three sections holding any of the keys k and j, each with a value of
\* ---- its own
KeyK == <<"k">>
KeyJ == <<"j">>
SectionKeys == { <<>>, <<KeyK>>, <<KeyJ>>, <<KeyK, KeyJ>>, <<KeyJ, KeyK>> }
SectionCases == [root : SectionKeys, S : SectionKeys, T : {<<>>, <<KeyK>>}]

ValueIn(sectionName, keyName) ==
    << IF sectionName = NullPtr THEN "r" ELSE sectionName[1], keyName[1] >>

RECURSIVE RenderKeys(_, _)
RenderKeys(sectionName, keys) ==
    IF keys = <<>> THEN <<>>
    ELSE keys[1] \o Assign \o ValueIn(sectionName, keys[1]) \o NL
         \o RenderKeys(sectionName, Tail(keys))

RenderSections(c) ==
    RenderKeys(NullPtr, c.root) \o SectionS \o RenderKeys(<<"S">>, c.S)
    \o SectionT \o RenderKeys(<<"T">>, c.T)

\* ---- arrays of bare elements: k = [e0, e1, ...]
MaxElems == 3
Elements == { <<"1", "0">>, <<"2", "0">>, <<"3", "0">> }
ArrayCases == SeqsUpTo(Elements \cup {<<>>}, 0, MaxElems)

RenderArray(elems) == <<"k">> \o Assign \o <<"[">> \o Join(elems, CommaSp) \o <<"]">>

\* ---- arrays with a comma missing after an element
Separators == { <<" ">>, <<";">>, NL }
Junk == { <<"2", ",", " ", "3">>, <<"x", " ", "=", " ", "5">>,
          <<"{", " ", "y", " ", "=", " ", "1", " ", "}", ",", " ", "3">>,
          <<"\"", "q", "\"", ",", "3">>, <<"[", "7", "]", ",", " ", "3">> }
TruncatedCases ==
    [elems : SeqsUpTo({<<"1">>, <<"x", "y">>}, 1, MaxElems - 1), sep : Separators,
     junk : Junk, suffix : {<<>>, NL \o OtherStatement}]

RenderTruncated(c) ==
    <<"k">> \o Assign \o <<"[">> \o Join(c.elems, CommaSp) \o c.sep \o c.junk
    \o <<"]">> \o c.suffix

\* ---- object literals: o = { a = V, b = V, ... } with V a scalar, an object
\* ---- or an array
PairNames == << <<"a">>, <<"b">>, <<"c">>, <<"d">> >>
PairValues == {"scalar", "object", "array"}
ObjectCases == SeqsUpTo(PairValues, 1, MaxElems)

RenderPairValue(kind) ==
    IF kind = "scalar" THEN <<"1">>
    ELSE IF kind = "object" THEN <<"{", " ", "x", " ", "=", " ", "2", " ", "}">>
    ELSE <<"[", " ", "7", ",", " ", "8", " ", "]">>

RenderPairs(kinds) ==
    Join([i \in 1..Len(kinds) |-> PairNames[i] \o Assign \o RenderPairValue(kinds[i])],
         CommaSp)

RenderObject(kinds) ==
    <<"o">> \o Assign \o <<"{", " ">> \o RenderPairs(kinds) \o <<" ", "}">>

\* ---- a statement and one comment, before its key or after its value
CommentBodies == { <<"c">>, <<"j", "=", "w">>, <<"[", "S", "]">> }
LineComments == { <<"/", "/">> \o b : b \in CommentBodies }
BlockComments == { <<"/", "*">> \o b \o <<"*", "/">> : b \in CommentBodies }
BareStatement == <<"k", " ", "=", " ", "v">>
QuotedStatement == <<"k", " ", "=", " ", "\"", "q", "\"">>
Statements == { BareStatement, QuotedStatement }

\* before the key: the comment, then the statement on the next line or (a
\* block comment) on the same line
CommentBeforeKey ==
    [before : {<<>>, OtherStatement \o NL}, comment : LineComments \cup BlockComments,
     after : {NL \o st : st \in Statements}, adjacent : {FALSE}]
    \cup
    [before : {<<>>}, comment : BlockComments,
     after : Statements \cup {<<" ">> \o st : st \in Statements}, adjacent : {FALSE}]

\* after the value: separated from it by a blank or a newline, or adjacent
CommentAfterValue ==
    [before : {st \o gap : st \in Statements, gap \in {<<" ">>, NL}},
     comment : LineComments \cup BlockComments,
     after : {<<>>, NL \o OtherStatement}, adjacent : {FALSE}]
    \cup
    [before : Statements, comment : LineComments \cup BlockComments,
     after : {<<>>, NL \o OtherStatement}, adjacent : {TRUE}]

CommentCases == CommentBeforeKey \cup CommentAfterValue

RenderCommented(c) == c.before \o c.comment \o c.after
RenderUncommented(c) == c.before \o c.after

Inputs ==
    RawInputs
    \cup { RenderScalar(c) : c \in ScalarCases }
    \cup { RenderQuoted(c) : c \in QuotedCases }
    \cup { RenderSections(c) : c \in SectionCases }
    \cup { RenderArray(c) : c \in ArrayCases }
    \cup { RenderTruncated(c) : c \in TruncatedCases }
    \cup { RenderObject(c) : c \in ObjectCases }
    \cup { RenderCommented(c) : c \in CommentCases }

\* the bytes that follow the declared length in memory
Tails == { <<>>, <<"=", "{">> }

\* the names the getters are called with
SectionArgs == { NullPtr, <<"S">> }
KeyArgs == { <<"k">> }
Garbage == <<"?">>

----------------------------------------------------------------------------
(* The context and the API *)

parserObj == [m_configBuffer |-> m_configBuffer,
              m_configBufferLength |-> m_configBufferLength]

ParseState == [ptr |-> internalDataPtr, data |-> m_parsedData,
               count |-> m_sectionCount, frames |-> frames,
               running |-> pc = "parsing"]

NoCall == [op |-> "none", val |-> 0]

\* a variant that only looks at the buffer pointer
ParseRefused_PointerOnly == m_configBuffer = NullPtr

\* if (!m_configBuffer || !m_configBufferLength) return 0;
ParseRefused == m_configBuffer = NullPtr \/ m_configBufferLength = 0

Init ==
    /\ m_configBuffer = NullPtr
    /\ m_configBufferLength = 0
    /\ m_parsedData = <<>>
    /\ m_sectionCount = 0
    /\ pc = "idle"
    /\ internalDataPtr = 0
    /\ frames = <<>>
    /\ ret = NoCall
    /\ bufferOwner = "none"
    /\ m_currentConfigFile = NullPtr

\* A context is given one buffer per life: after construction or after
\* vcfg_clear.  Setting a buffer over an earlier one frees the earlier one
\* and ends in the state that setting it first would have reached.
vcfg_set_buffer ==
    /\ pc = "idle"
    /\ m_sectionCount = 0
    /\ m_configBuffer = NullPtr
    /\ \E inputBuffer \in Inputs, tail \in Tails :
          /\ m_configBuffer' = inputBuffer \o tail
          /\ m_configBufferLength' = Len(inputBuffer)
    /\ ret' = [op |-> "vcfg_set_buffer", val |-> 0, freedBuffer |-> "none"]
    /\ bufferOwner' = "caller"
    /\ UNCHANGED <<m_parsedData, m_sectionCount, pc, internalDataPtr, frames,
                   m_currentConfigFile>>

\* the parse state st becomes the context's; no call has returned while
\* vcfg_parse runs
Becomes(st) ==
    /\ internalDataPtr' = st.ptr
    /\ m_parsedData' = st.data
    /\ m_sectionCount' = st.count
    /\ frames' = st.frames
    /\ pc' = IF st.running THEN "parsing" ELSE "parsed"
    /\ ret' = IF st.running THEN NoCall ELSE [op |-> "vcfg_parse", val |-> 1, nomem |-> FALSE]
    /\ UNCHANGED <<m_configBuffer, m_configBufferLength, bufferOwner,
                   m_currentConfigFile>>

vcfg_parse_fail ==
    /\ pc \in {"idle", "parsed"}
    /\ ParseRefused
    /\ ret' = [op |-> "vcfg_parse", val |-> 0, nomem |-> FALSE]
    /\ UNCHANGED <<m_configBuffer, m_configBufferLength, m_parsedData, m_sectionCount,
                   pc, internalDataPtr, frames, bufferOwner, m_currentConfigFile>>

\* calloc of the root section returns null: the section array is lost, the
\* section count keeps whatever an earlier parse left in it
vcfg_parse_nomem ==
    /\ pc \in {"idle", "parsed"}
    /\ ~ParseRefused
    /\ m_parsedData' = <<>>
    /\ pc' = "idle"
    /\ internalDataPtr' = 0
    /\ ret' = [op |-> "vcfg_parse", val |-> 0, nomem |-> TRUE]
    /\ UNCHANGED <<m_configBuffer, m_configBufferLength, m_sectionCount, frames,
                   bufferOwner, m_currentConfigFile>>

vcfg_parse_begin ==
    /\ pc \in {"idle", "parsed"}
    /\ ~ParseRefused
    /\ Becomes(vcfg_parse_start)

vcfg_parse_loop ==
    /\ pc = "parsing"
    /\ frames = <<>>
    /\ internalDataPtr < m_configBufferLength
    /\ Becomes(vcfg_parse_iter(parserObj, ParseState))

vcfg_parse_return ==
    /\ pc = "parsing"
    /\ frames = <<>>
    /\ ~(internalDataPtr < m_configBufferLength)
    /\ Becomes([ParseState EXCEPT !.running = FALSE])

vcfginternal_parsearray_loop ==
    /\ pc = "parsing"
    /\ InContainerLoop(parserObj, ParseState)
    /\ frames[Len(frames)].kind = "array"
    /\ ChildCountAt(m_parsedData[m_sectionCount].keys, Len(frames)) < MaxChildren
    /\ Becomes(vcfginternal_parsearray_iter(parserObj, ParseState))

vcfginternal_parseobject_loop ==
    /\ pc = "parsing"
    /\ InContainerLoop(parserObj, ParseState)
    /\ frames[Len(frames)].kind = "object"
    /\ Becomes(vcfginternal_parseobject_iter(parserObj, ParseState))

vcfginternal_container_return ==
    /\ pc = "parsing"
    /\ frames # <<>>
    /\ ~InContainerLoop(parserObj, ParseState)
    /\ Becomes(ContainerReturn(parserObj, ParseState))

\* what a getter's dereference of a null pointer can do: stop the process,
\* or read whatever lies at that address and return something
vcfg_get_string ==
    /\ pc \in {"idle", "parsed"}
    /\ \E sectionName \in SectionArgs, keyName \in KeyArgs :
          IF DereferencesNull(m_parsedData, m_sectionCount, sectionName)
          THEN \E outcome \in {<<"crashed", NullPtr>>, <<pc, NullPtr>>, <<pc, Garbage>>} :
                  /\ ret' = [op |-> "vcfg_get_string", sectionName |-> sectionName,
                             keyName |-> keyName, val |-> outcome[2], nullDeref |-> TRUE]
                  /\ pc' = outcome[1]
          ELSE /\ ret' = [op |-> "vcfg_get_string", sectionName |-> sectionName,
                          keyName |-> keyName, nullDeref |-> FALSE,
                          val |-> StringInSection(m_parsedData,
                                     vcfg_get_section(m_parsedData, m_sectionCount,
                                                      sectionName), keyName)]
               /\ pc' = pc
    /\ UNCHANGED <<m_configBuffer, m_configBufferLength, m_parsedData, m_sectionCount,
                   internalDataPtr, frames, bufferOwner, m_currentConfigFile>>

vcfg_get_node ==
    /\ pc \in {"idle", "parsed"}
    /\ \E sectionName \in SectionArgs, keyName \in KeyArgs :
          IF DereferencesNull(m_parsedData, m_sectionCount, sectionName)
          THEN \E outcome \in {<<"crashed", NullNode>>, <<pc, NullNode>>, <<pc, <<1, 1>>>>} :
                  /\ ret' = [op |-> "vcfg_get_node", sectionName |-> sectionName,
                             keyName |-> keyName, val |-> outcome[2], nullDeref |-> TRUE]
                  /\ pc' = outcome[1]
          ELSE /\ ret' = [op |-> "vcfg_get_node", sectionName |-> sectionName,
                          keyName |-> keyName, nullDeref |-> FALSE,
                          val |-> NodeInSection(m_parsedData,
                                     vcfg_get_section(m_parsedData, m_sectionCount,
                                                      sectionName), keyName)]
               /\ pc' = pc
    /\ UNCHANGED <<m_configBuffer, m_configBufferLength, m_parsedData, m_sectionCount,
                   internalDataPtr, frames, bufferOwner, m_currentConfigFile>>

\* The heap blocks a tree holds, counted where they are allocated: the
\* section array (calloc in vcfg_parse, realloc in createsection), a name
\* per named section, a key array per section that has keys, and per key
\* its name, its value if it has one, its child array if it has children.
RECURSIVE KeysBelow(_)
KeysBelow(keys) ==
    IF keys = <<>> THEN <<>>
    ELSE <<Head(keys)>> \o KeysBelow(Head(keys).children) \o KeysBelow(Tail(keys))

BlocksOfKey(key) ==
    1 + (IF key.value # NullPtr THEN 1 ELSE 0) + (IF key.children # <<>> THEN 1 ELSE 0)

RECURSIVE BlocksOfKeys(_)
BlocksOfKeys(keys) ==
    IF keys = <<>> THEN 0 ELSE BlocksOfKey(Head(keys)) + BlocksOfKeys(Tail(keys))

BlocksOfSection(section) ==
    (IF section.name # NullPtr THEN 1 ELSE 0)
    + (IF section.keys # <<>> THEN 1 ELSE 0)
    + BlocksOfKeys(KeysBelow(section.keys))

RECURSIVE BlocksOfSections(_)
BlocksOfSections(sections) ==
    IF sections = <<>> THEN 0
    ELSE BlocksOfSection(Head(sections)) + BlocksOfSections(Tail(sections))

HeapBlocks(data) ==
    IF data = <<>> THEN 0 ELSE 1 + BlocksOfSections(data)

\* the calls of free() with a live block that clearing a key makes, and
\* that the loop over an array of keys makes
RECURSIVE vcfginternal_clear_key(_)
RECURSIVE ClearKeys(_)
vcfginternal_clear_key(keyToClear) ==
    1
    + (IF keyToClear.value # NullPtr THEN 1 ELSE 0)
    + (IF Len(keyToClear.children) # 0 THEN ClearKeys(keyToClear.children) + 1 ELSE 0)

ClearKeys(keys) ==
    IF keys = <<>> THEN 0
    ELSE vcfginternal_clear_key(Head(keys)) + ClearKeys(Tail(keys))

vcfginternal_clear_section(sectionToClear) ==
    (IF sectionToClear.name # NullPtr THEN 1 ELSE 0)
    + (IF Len(sectionToClear.keys) # 0 THEN ClearKeys(sectionToClear.keys) + 1 ELSE 0)

RECURSIVE ClearSections(_)
ClearSections(sections) ==
    IF sections = <<>> THEN 0
    ELSE vcfginternal_clear_section(Head(sections)) + ClearSections(Tail(sections))

\* the blocks of the tree that vcfg_clear passes to free(): those of the
\* first m_sectionCount sections, then the section array (what the loop
\* reads past a missing array is no block of the tree)
FreedByClear(data, count) ==
    IF count = 0 THEN 0
    ELSE ClearSections(SubSeq(data, 1, IF count < Len(data) THEN count ELSE Len(data)))
         + (IF data # <<>> THEN 1 ELSE 0)

\* a variant that frees the block and keeps the pointer
FreeAndReset_KeepingPointer(pointer) == pointer

\* free((void*)pointer); pointer = 0;
FreeAndReset(pointer) == NullPtr

\* With sections counted and no section array (a failed calloc on a second
\* parse) the loop over the sections reads through a null pointer.  The
\* call's record says which buffer went to free() and how many blocks of
\* the tree the context held were not freed.
vcfg_clear ==
    /\ pc \in {"idle", "parsed"}
    /\ \E crash \in {FALSE, m_sectionCount > Len(m_parsedData)} :
          pc' = IF crash THEN "crashed" ELSE "idle"
    /\ m_configBuffer' = IF m_configBuffer # NullPtr THEN FreeAndReset(m_configBuffer)
                         ELSE m_configBuffer
    /\ bufferOwner' = "none"
    /\ IF m_sectionCount # 0
       THEN m_parsedData' = <<>> /\ m_sectionCount' = 0
       ELSE UNCHANGED <<m_parsedData, m_sectionCount>>
    /\ m_currentConfigFile' = NullPtr
    /\ ret' = [op |-> "vcfg_clear", val |-> 0,
               freedBuffer |-> IF m_configBuffer # NullPtr THEN bufferOwner ELSE "none",
               closedFile |-> m_currentConfigFile # NullPtr,
               freedBlocks |-> FreedByClear(m_parsedData, m_sectionCount) > 0,
               unfreed |-> HeapBlocks(m_parsedData)
                           - FreedByClear(m_parsedData, m_sectionCount)]
    /\ internalDataPtr' = 0
    /\ frames' = <<>>
    /\ UNCHANGED m_configBufferLength

Next ==
    \/ vcfg_set_buffer
    \/ vcfg_parse_fail
    \/ vcfg_parse_nomem
    \/ vcfg_parse_begin
    \/ vcfg_parse_loop
    \/ vcfg_parse_return
    \/ vcfginternal_parsearray_loop
    \/ vcfginternal_parseobject_loop
    \/ vcfginternal_container_return
    \/ vcfg_get_string
    \/ vcfg_get_node
    \/ vcfg_clear

Spec == Init /\ [][Next]_vars

----------------------------------------------------------------------------
(* The life of a context: files, a buffer set over another, a parse after *)
(* a parse, and vcfg_clear                                                *)

\* the buffers the caller hands over and the files vcfg_open finds
LifeInputs ==
    { <<>>,
      <<"k">> \o Assign \o <<"v">>,
      SectionS \o <<"k">> \o Assign \o <<"v">>,
      <<"k">> \o Assign \o <<"[">> \o <<"1">> \o CommaSp \o <<"2">> \o <<"]">>,
      <<"o">> \o Assign \o <<"{", " ", "a">> \o Assign \o <<"1", " ", "}">> }

Files == { <<>>, <<"k">> \o Assign \o <<"v">>, SectionT \o <<"j">> \o Assign \o <<"w">> }

\* what malloc'ed memory that was never written can hold
Uninitialised == { NUL, "=" }

\* what a call that frees m_configBuffer passes to free()
FreedBuffer == IF m_configBuffer # NullPtr THEN bufferOwner ELSE "none"

\* vcfg_set_buffer on any context that is not inside a call: an earlier
\* buffer is passed to free(), whoever allocated it
vcfg_set_buffer_over ==
    /\ pc \in {"idle", "parsed"}
    /\ \E inputBuffer \in LifeInputs :
          /\ m_configBuffer' = inputBuffer
          /\ m_configBufferLength' = Len(inputBuffer)
    /\ bufferOwner' = "caller"
    /\ ret' = [op |-> "vcfg_set_buffer", val |-> 0, freedBuffer |-> FreedBuffer]
    /\ UNCHANGED <<m_parsedData, m_sectionCount, pc, internalDataPtr, frames,
                   m_currentConfigFile>>

\* vcfg_open.  fopen_s fails: return 0 with the file pointer reset and
\* nothing else touched.  Otherwise the earlier buffer is freed and
\* fileSize + 1 bytes are allocated; malloc fails: return 0 with no buffer;
\* fread comes back short (bytesRead of fileSize bytes): return 0 with the
\* new buffer in place and the length not yet assigned.  Otherwise the
\* length is assigned and vcfg_parse is called: it refuses an empty file,
\* its calloc fails, or it starts to parse.  The byte after the file's
\* bytes is never written.
vcfg_open ==
    /\ pc \in {"idle", "parsed"}
    /\ \E file \in Files, unwritten \in Uninitialised,
          outcome \in {"fopen_s", "malloc", "fread", "calloc", "vcfg_parse"} :
          LET fileSize == Len(file)
              opened == [op |-> "vcfg_open", val |-> 0, failed |-> outcome,
                         freedBuffer |-> FreedBuffer]
          IN  CASE outcome = "fopen_s" ->
                     /\ m_currentConfigFile' = NullPtr
                     /\ ret' = [opened EXCEPT !.freedBuffer = "none"]
                     /\ UNCHANGED <<m_configBuffer, m_configBufferLength, bufferOwner,
                                    m_parsedData, m_sectionCount, pc, internalDataPtr,
                                    frames>>
                [] outcome = "malloc" ->
                     /\ m_currentConfigFile' = <<"FILE">>
                     /\ m_configBuffer' = NullPtr
                     /\ bufferOwner' = "none"
                     /\ ret' = opened
                     /\ UNCHANGED <<m_configBufferLength, m_parsedData, m_sectionCount,
                                    pc, internalDataPtr, frames>>
                [] outcome = "fread" ->
                     /\ fileSize > 0
                     /\ \E bytesRead \in {0, fileSize - 1} :
                           m_configBuffer' =
                               [i \in 1..(fileSize + 1) |->
                                   IF i <= bytesRead THEN file[i] ELSE unwritten]
                     /\ m_currentConfigFile' = <<"FILE">>
                     /\ bufferOwner' = "library"
                     /\ ret' = opened
                     /\ UNCHANGED <<m_configBufferLength, m_parsedData, m_sectionCount,
                                    pc, internalDataPtr, frames>>
                [] outcome = "calloc" ->
                     /\ fileSize > 0
                     /\ m_currentConfigFile' = <<"FILE">>
                     /\ m_configBuffer' = file \o <<unwritten>>
                     /\ m_configBufferLength' = fileSize
                     /\ bufferOwner' = "library"
                     /\ m_parsedData' = <<>>
                     /\ pc' = "idle"
                     /\ internalDataPtr' = 0
                     /\ ret' = opened
                     /\ UNCHANGED <<m_sectionCount, frames>>
                [] outcome = "vcfg_parse" ->
                     /\ m_currentConfigFile' = <<"FILE">>
                     /\ m_configBuffer' = file \o <<unwritten>>
                     /\ m_configBufferLength' = fileSize
                     /\ bufferOwner' = "library"
                     /\ IF fileSize = 0
                        THEN /\ ret' = opened
                             /\ UNCHANGED <<m_parsedData, m_sectionCount, pc,
                                            internalDataPtr, frames>>
                        ELSE /\ internalDataPtr' = vcfg_parse_start.ptr
                             /\ m_parsedData' = vcfg_parse_start.data
                             /\ m_sectionCount' = vcfg_parse_start.count
                             /\ frames' = vcfg_parse_start.frames
                             /\ pc' = "parsing"
                             /\ ret' = NoCall

LifeNext ==
    \/ vcfg_set_buffer_over
    \/ vcfg_open
    \/ vcfg_parse_fail
    \/ vcfg_parse_nomem
    \/ vcfg_parse_begin
    \/ vcfg_parse_loop
    \/ vcfg_parse_return
    \/ vcfginternal_parsearray_loop
    \/ vcfginternal_parseobject_loop
    \/ vcfginternal_container_return
    \/ vcfg_clear

LifeSpec == Init /\ [][LifeNext]_vars

----------------------------------------------------------------------------
(* The typed getters *)

VCFG_IS_NUMBER(ch) == \E d \in 1..Len(Digits) : Digits[d] = ch

\* (*str) - '0'
DigitValue(ch) == (CHOOSE d \in 1..Len(Digits) : Digits[d] = ch) - 1

\* the byte a C string holds at offset i: its terminator once past the end
CharAt(str, i) == IF i < Len(str) THEN str[i + 1] ELSE NUL

\* while (*str != '\0') { if (!VCFG_IS_NUMBER(*str)) break; result *= 10; ... }
RECURSIVE DigitLoop(_, _, _)
DigitLoop(str, i, result) ==
    IF CharAt(str, i) # NUL /\ VCFG_IS_NUMBER(CharAt(str, i))
    THEN DigitLoop(str, i + 1, result * 10 + DigitValue(CharAt(str, i)))
    ELSE result

\* a variant that reads the digits and forgets the sign
vcfginternal_strtoint_Unsigned(str) ==
    IF str = NullPtr THEN -1
    ELSE LET first == IF CharAt(str, 0) = "-" THEN 1 ELSE 0
         IN  IF ~VCFG_IS_NUMBER(CharAt(str, first)) THEN -1
             ELSE DigitLoop(str, first, 0)

vcfginternal_strtoint(str) ==
    IF str = NullPtr THEN -1
    ELSE LET negative == CharAt(str, 0) = "-"
             first == IF negative THEN 1 ELSE 0
         IN  IF ~VCFG_IS_NUMBER(CharAt(str, first)) THEN -1
             ELSE IF negative THEN -DigitLoop(str, first, 0)
                  ELSE DigitLoop(str, first, 0)

True == <<"t", "r", "u", "e">>

\* a variant that takes every value that starts with "true" for true
BoolOfString_ByPrefix(stringValue) ==
    IF stringValue # NullPtr /\ Len(stringValue) >= Len(True)
       /\ SubSeq(stringValue, 1, Len(True)) = True
    THEN 1 ELSE 0

\* (vcfginternal_strcmp(stringValue, "true") == 0 ? 1 : 0)
BoolOfString(stringValue) ==
    IF vcfginternal_strcmp(stringValue, True) = 0 THEN 1 ELSE 0

\* vcfg_get_string_from_node with a parent that is not null
StringInNode(data, parentNode, keyName) ==
    LET children == data[parentNode[1]].keys[parentNode[2]].children
        i == FirstNamed(children, Len(children), keyName)
    IN  IF i = 0 THEN NullPtr ELSE children[i].value

\* ---- the buffers the typed getters are asked about
\* a section declared twice (or a second time in another case), each header
\* with keys of its own
FirstKeys == { <<>>, <<KeyK>>, <<KeyK, KeyJ>> }
SecondKeys == { <<>>, <<KeyK>>, <<KeyJ>>, <<KeyJ, KeyK>> }
DuplicateCases ==
    [first : FirstKeys, second : SecondKeys, again : {<<"S">>, <<"s">>},
     root : {<<>>, <<KeyK>>}]

HeaderOf(name) == <<"[">> \o name \o <<"]">> \o NL

RenderDuplicate(c) ==
    RenderKeys(NullPtr, c.root)
    \o HeaderOf(<<"S">>) \o RenderKeys(<<"1">>, c.first)
    \o HeaderOf(c.again) \o RenderKeys(<<"2">>, c.second)

\* k = <value>, for every value of at most MaxIntLen bytes over these
MaxIntLen == 3
IntAlphabet == {"-", "0", "7", "x"}
IntValues == SeqsUpTo(IntAlphabet, 0, MaxIntLen)
RenderInt(value) == KeyK \o Assign \o value

\* k = <value> in the root section, under [S], and inside the object o
BoolValues ==
    { <<>>, True, <<"T", "r", "u", "e">>, <<"t", "r", "u">>, True \o <<"e">>,
      <<"f", "a", "l", "s", "e">>, <<"1">>, <<"\"">> \o True \o <<"\"">>,
      <<"\"">> \o True \o <<" ", "\"">> }
BoolCases == [value : BoolValues, place : {"root", "section", "object"}]
RenderBool(c) ==
    CASE c.place = "root" -> KeyK \o Assign \o c.value
      [] c.place = "section" -> HeaderOf(<<"S">>) \o KeyK \o Assign \o c.value
      [] c.place = "object" ->
            <<"o">> \o Assign \o <<"{", " ">> \o KeyK \o Assign \o c.value
            \o <<" ", "}">>

GetInputs ==
    { RenderDuplicate(c) : c \in DuplicateCases }
    \cup { RenderInt(value) : value \in IntValues }
    \cup { RenderBool(c) : c \in BoolCases }

GetSectionArgs == { NullPtr, <<>>, <<"S">>, <<"s">> }
GetKeyArgs == { KeyK, KeyJ }

\* the nodes a caller can hold: what vcfg_get_node returned for o
ParentArgs ==
    IF m_sectionCount = 0 \/ m_sectionCount > Len(m_parsedData) THEN {NullNode}
    ELSE {NullNode, NodeInSection(m_parsedData, 1, <<"o">>)}

\* the first buffer of a context
vcfg_set_buffer_first ==
    /\ pc = "idle"
    /\ m_sectionCount = 0
    /\ m_configBuffer = NullPtr
    /\ \E inputBuffer \in GetInputs, tail \in Tails :
          /\ m_configBuffer' = inputBuffer \o tail
          /\ m_configBufferLength' = Len(inputBuffer)
    /\ ret' = [op |-> "vcfg_set_buffer", val |-> 0, freedBuffer |-> "none"]
    /\ bufferOwner' = "caller"
    /\ UNCHANGED <<m_parsedData, m_sectionCount, pc, internalDataPtr, frames,
                   m_currentConfigFile>>

\* a variant that forgets the buffer's length on the way
GetterReturns_ResettingLength(call, derefsNull, value, garbage) ==
    /\ IF derefsNull
       THEN \E outcome \in {<<"crashed", garbage[1]>>, <<pc, garbage[1]>>,
                            <<pc, garbage[2]>>} :
               /\ ret' = call @@ [val |-> outcome[2], nullDeref |-> TRUE]
               /\ pc' = outcome[1]
       ELSE /\ ret' = call @@ [val |-> value, nullDeref |-> FALSE]
            /\ pc' = pc
    /\ m_configBufferLength' = 0
    /\ UNCHANGED <<m_configBuffer, m_parsedData, m_sectionCount,
                   internalDataPtr, frames, bufferOwner, m_currentConfigFile>>

\* A getter returns: with value, or, when it read through a null pointer,
\* stopping the process or with whatever it found there (one of the two
\* values of garbage).
GetterReturns(call, derefsNull, value, garbage) ==
    /\ IF derefsNull
       THEN \E outcome \in {<<"crashed", garbage[1]>>, <<pc, garbage[1]>>,
                            <<pc, garbage[2]>>} :
               /\ ret' = call @@ [val |-> outcome[2], nullDeref |-> TRUE]
               /\ pc' = outcome[1]
       ELSE /\ ret' = call @@ [val |-> value, nullDeref |-> FALSE]
            /\ pc' = pc
    /\ UNCHANGED <<m_configBuffer, m_configBufferLength, m_parsedData, m_sectionCount,
                   internalDataPtr, frames, bufferOwner, m_currentConfigFile>>

\* vcfg_get_section reads m_parsedData[i].name for every i below
\* m_sectionCount
vcfg_get_section_call ==
    /\ pc \in {"idle", "parsed"}
    /\ \E sectionName \in GetSectionArgs :
          GetterReturns([op |-> "vcfg_get_section", sectionName |-> sectionName],
                        m_sectionCount > Len(m_parsedData),
                        IF m_sectionCount > Len(m_parsedData) THEN 0
                        ELSE vcfg_get_section(m_parsedData, m_sectionCount, sectionName),
                        <<0, 1>>)

\* the string the getters convert
StringOrNull(sectionName, keyName) ==
    IF DereferencesNull(m_parsedData, m_sectionCount, sectionName) THEN NullPtr
    ELSE StringInSection(m_parsedData,
                         vcfg_get_section(m_parsedData, m_sectionCount, sectionName),
                         keyName)

vcfg_get_int ==
    /\ pc \in {"idle", "parsed"}
    /\ \E sectionName \in GetSectionArgs, keyName \in GetKeyArgs :
          GetterReturns([op |-> "vcfg_get_int", sectionName |-> sectionName,
                         keyName |-> keyName],
                        DereferencesNull(m_parsedData, m_sectionCount, sectionName),
                        vcfginternal_strtoint(StringOrNull(sectionName, keyName)),
                        <<-1, 0>>)

vcfg_get_bool ==
    /\ pc \in {"idle", "parsed"}
    /\ \E sectionName \in GetSectionArgs, keyName \in GetKeyArgs :
          GetterReturns([op |-> "vcfg_get_bool", sectionName |-> sectionName,
                         keyName |-> keyName],
                        DereferencesNull(m_parsedData, m_sectionCount, sectionName),
                        BoolOfString(StringOrNull(sectionName, keyName)),
                        <<0, 1>>)

\* if (!parentNode) return vcfg_get_bool(parserObj, 0, keyName);
vcfg_get_bool_from_node ==
    /\ pc \in {"idle", "parsed"}
    /\ \E parentNode \in ParentArgs, keyName \in GetKeyArgs :
          GetterReturns([op |-> "vcfg_get_bool_from_node", parentNode |-> parentNode,
                         keyName |-> keyName],
                        parentNode = NullNode
                           /\ DereferencesNull(m_parsedData, m_sectionCount, NullPtr),
                        IF parentNode = NullNode
                        THEN BoolOfString(StringOrNull(NullPtr, keyName))
                        ELSE BoolOfString(StringInNode(m_parsedData, parentNode, keyName)),
                        <<0, 1>>)

GetNext ==
    \/ vcfg_set_buffer_first
    \/ vcfg_parse_fail
    \/ vcfg_parse_nomem
    \/ vcfg_parse_begin
    \/ vcfg_parse_loop
    \/ vcfg_parse_return
    \/ vcfginternal_parseobject_loop
    \/ vcfginternal_container_return
    \/ vcfg_get_section_call
    \/ vcfg_get_int
    \/ vcfg_get_bool
    \/ vcfg_get_bool_from_node

GetSpec == Init /\ [][GetNext]_vars

----------------------------------------------------------------------------
(* Claims *)

\* the buffer as the caller declared it
Buffer == SubSeq(m_configBuffer, 1, m_configBufferLength)

\* a pass of one of the three loops is about to run
LoopPassPending ==
    /\ pc = "parsing"
    /\ IF frames = <<>> THEN internalDataPtr < m_configBufferLength
       ELSE InContainerLoop(parserObj, ParseState)

\* C1: vcfg_parse terminates on every buffer: every pass of the top-level
\* loop and of the array and object loops either advances the cursor or
\* leaves the loop.
C1_EveryPassAdvancesOrLeaves ==
    LoopPassPending =>
        LET after == ParseStep(parserObj, ParseState)
        IN  after.ptr > internalDataPtr \/ ~after.running

Getters == {"vcfg_get_string", "vcfg_get_node"}

SectionExists(sectionName) ==
    \E i \in 1..Len(m_parsedData) : m_parsedData[i].name = sectionName

KeyExists(sectionName, keyName) ==
    \E i \in 1..Len(m_parsedData) :
        /\ m_parsedData[i].name = sectionName
        /\ \E j \in 1..Len(m_parsedData[i].keys) : m_parsedData[i].keys[j].name = keyName

\* C2: vcfg_get_node and vcfg_get_string return not-found when the section
\* or the key does not exist, and no call dereferences a missing section,
\* whether the context was never parsed, is parsed, or has been cleared.
C2_MissingLookupIsNotFound ==
    ret.op \in Getters =>
        /\ ~ret.nullDeref
        /\ ~KeyExists(ret.sectionName, ret.keyName) =>
               ret.val = IF ret.op = "vcfg_get_node" THEN NullNode ELSE NullPtr

----------------------------------------------------------------------------
(* What a finished parse left behind *)

\* vcfg_parse has just returned success
JustParsed == ret.op = "vcfg_parse" /\ ret.val = 1

\* the bytes that lie behind the declared length
MemoryTail == SubSeq(m_configBuffer, m_configBufferLength + 1, Len(m_configBuffer))

\* vcfg_get_string(sectionName, keyName) on the parsed tree, for a section
\* that exists
Lookup(sectionName, keyName) ==
    StringInSection(m_parsedData,
                    vcfg_get_section(m_parsedData, m_sectionCount, sectionName), keyName)

\* the node vcfg_get_node(NULL, keyName) points to, for a key that exists
RootNode(keyName) ==
    m_parsedData[1].keys[FirstNamed(m_parsedData[1].keys, Len(m_parsedData[1].keys),
                                    keyName)]

HasRootNode(keyName) ==
    /\ m_sectionCount >= 1
    /\ FirstNamed(m_parsedData[1].keys, Len(m_parsedData[1].keys), keyName) # 0

\* the tree vcfg_parse builds from a buffer on which it returns
RECURSIVE RunParse(_, _)
RunParse(parser, st) == IF st.running THEN RunParse(parser, ParseStep(parser, st)) ELSE st

ParsedTree(inputBuffer) ==
    RunParse([m_configBuffer |-> inputBuffer \o MemoryTail,
              m_configBufferLength |-> Len(inputBuffer)], vcfg_parse_start).data

\* ---- C3
ExpectedPair(name, kind) ==
    IF kind = "scalar" THEN NewKey(name, <<"1">>)
    ELSE IF kind = "object"
    THEN [name |-> name, value |-> ObjectSentinel,
          children |-> << NewKey(<<"x">>, <<"2">>) >>]
    ELSE [name |-> name, value |-> ArraySentinel,
          children |-> << NewKey(<<"0">>, <<"7">>), NewKey(<<"1">>, <<"8">>) >>]

ExpectedPairs(kinds) == [i \in 1..Len(kinds) |-> ExpectedPair(PairNames[i], kinds[i])]

\* C3: the children of a parsed object literal are exactly the pairs written
\* between its braces, in order, each nested object or array holding exactly
\* its own pairs or elements, also when further pairs follow a nested
\* container.
C3_ObjectChildrenAreItsPairs ==
    JustParsed =>
        \A kinds \in ObjectCases :
            Buffer = RenderObject(kinds) =>
                /\ HasRootNode(<<"o">>)
                /\ RootNode(<<"o">>).children = ExpectedPairs(kinds)

\* ---- C4
ExpectedElements(elems) ==
    [i \in 1..Len(elems) |-> NewKey(vcfginternal_unsignednumtostr(i - 1), elems[i])]

\* C4: after k = [e0, e1, ..., en-1] with bare elements and the closing
\* bracket directly after the last one, node k has exactly the children
\* "0" .. "n-1", child i holding exactly the text of ei.
C4_ArrayChildrenAreItsElements ==
    JustParsed =>
        \A elems \in ArrayCases :
            /\ Len(elems) >= 1
            /\ \A i \in 1..Len(elems) : elems[i] # <<>>
            /\ Buffer = RenderArray(elems)
            => /\ HasRootNode(<<"k">>)
               /\ RootNode(<<"k">>).children = ExpectedElements(elems)

\* ---- C5
Holds(keys, keyName) == \E i \in 1..Len(keys) : keys[i] = keyName

KeysOf(c, sectionName) ==
    IF sectionName = NullPtr THEN c.root ELSE IF sectionName = <<"S">> THEN c.S ELSE c.T

\* C5: a key is stored only in the section that was open when it was parsed:
\* vcfg_get_string(section, k) returns the value assigned under that
\* section's header, whatever the other sections assign to the same name, and
\* nothing when the section does not assign it.
C5_SectionsResolveIndependently ==
    JustParsed =>
        \A c \in SectionCases :
            Buffer = RenderSections(c) =>
                \A sectionName \in {NullPtr, <<"S">>, <<"T">>}, keyName \in {KeyK, KeyJ} :
                    /\ vcfg_get_section(m_parsedData, m_sectionCount, sectionName) # 0
                    /\ Lookup(sectionName, keyName) =
                          IF Holds(KeysOf(c, sectionName), keyName)
                          THEN ValueIn(sectionName, keyName) ELSE NullPtr

C5_Witness ==
    /\ JustParsed
    /\ Buffer = RenderSections([root |-> <<KeyK, KeyJ>>, S |-> <<KeyJ, KeyK>>, T |-> <<KeyK>>])
    /\ Lookup(NullPtr, <<"k">>) = <<"r", "k">>
    /\ Lookup(<<"S">>, <<"k">>) = <<"S", "k">>
    /\ Lookup(<<"T">>, <<"k">>) = <<"T", "k">>
    /\ Lookup(<<"T">>, <<"j">>) = NullPtr

\* ---- C6
SectionOf(c) == IF c.prefix = SectionS THEN <<"S">> ELSE NullPtr

\* C6: after parsing a buffer that holds the statement k = v in a section,
\* v unquoted and free of whitespace, commas and semicolons,
\* vcfg_get_string(section, k) returns exactly v.
C6_BareValueRoundTrip ==
    JustParsed =>
        \A c \in ScalarCases :
            Buffer = RenderScalar(c) =>
                /\ vcfg_get_section(m_parsedData, m_sectionCount, SectionOf(c)) # 0
                /\ Lookup(SectionOf(c), <<"k">>) = c.value

C6_Witness ==
    /\ JustParsed
    /\ Buffer = RenderScalar([value |-> <<"]", "=">>, assign |-> <<"=">>,
                             prefix |-> SectionS, suffix |-> NL \o OtherStatement])
    /\ Lookup(<<"S">>, <<"k">>) = <<"]", "=">>
    /\ Lookup(<<"S">>, <<"j">>) = <<"w">>

\* ---- C7
\* the position of the first quote at or after p, the buffer end if none
RECURSIVE NextQuote(_)
NextQuote(p) ==
    IF p < m_configBufferLength /\ m_configBuffer[p + 1] # "\"" THEN NextQuote(p + 1) ELSE p

\* parsevalue at an opening quote that has a closing one in the buffer stops
\* right after the closing quote
ConsumesBothQuotes ==
    \A p \in 0..(m_configBufferLength - 1) :
        m_configBuffer[p + 1] = "\"" /\ NextQuote(p + 1) < m_configBufferLength =>
            vcfginternal_parsevalue(parserObj, p).ptr = NextQuote(p + 1) + 1

\* C7 as stated: the stored value of a quoted value is exactly the bytes
\* between the quotes (none of them, for ""), and both quotes are consumed.
C7_QuotedValueIsInterior ==
    JustParsed =>
        /\ ConsumesBothQuotes
        /\ \A c \in QuotedCases :
              Buffer = RenderQuoted(c) => Lookup(NullPtr, <<"k">>) = c.inner

\* C7, with the empty interior set apart: the stored value of a quoted value
\* is exactly the bytes between the opening quote and the first following
\* quote when there is at least one such byte, no value is stored when there
\* is none, and the bytes consumed include both quotes.
C7_QuotedValueIsNonEmptyInterior ==
    JustParsed =>
        /\ ConsumesBothQuotes
        /\ \A c \in QuotedCases :
              Buffer = RenderQuoted(c) =>
                  Lookup(NullPtr, <<"k">>) = IF c.inner = <<>> THEN NullPtr ELSE c.inner

C7_Witness ==
    /\ JustParsed
    /\ Buffer = RenderQuoted([inner |-> <<",", " ">>, assign |-> Assign, prefix |-> <<>>,
                             suffix |-> NL \o OtherStatement])
    /\ Lookup(NullPtr, <<"k">>) = <<",", " ">>
    /\ vcfginternal_parsevalue(parserObj, 4).ptr = 8

\* ---- C8
\* C8 as stated: a comment before the key or after the value of a statement
\* leaves the parsed tree what it is without the comment.
C8_CommentsAreTransparent ==
    JustParsed =>
        \A c \in CommentCases :
            Buffer = RenderCommented(c) => m_parsedData = ParsedTree(RenderUncommented(c))

\* the comment follows a bare value with nothing in between
TouchesBareValue(c) == c.adjacent /\ c.before = BareStatement

\* C8, for comments that do not touch a bare value: a comment before the key,
\* after a quoted value, or after a bare value and at least one whitespace
\* byte, leaves the parsed tree what it is without the comment.
C8_DetachedCommentsAreTransparent ==
    JustParsed =>
        \A c \in CommentCases :
            Buffer = RenderCommented(c) /\ ~TouchesBareValue(c) =>
                m_parsedData = ParsedTree(RenderUncommented(c))

C8_Witness ==
    /\ JustParsed
    /\ \E c \in CommentAfterValue :
          /\ c.before = BareStatement \o <<" ">>
          /\ c.comment = <<"/", "*", "j", "=", "w", "*", "/">>
          /\ c.after = NL \o OtherStatement
          /\ Buffer = RenderCommented(c)
    /\ m_parsedData[1].keys = << NewKey(<<"k">>, <<"v">>), NewKey(<<"j">>, <<"w">>) >>

\* ---- C9
ExpectedRest(c) == IF c.suffix = <<>> THEN <<>> ELSE << NewKey(<<"j">>, <<"w">>) >>

\* C9: in an array, an element followed by something else than a comma is
\* the last child: node k holds the elements up to it and nothing of what
\* lies between it and the next closing bracket, and none of those bytes
\* becomes a key of the section.
C9_MissingCommaEndsTheArray ==
    JustParsed =>
        \A c \in TruncatedCases :
            Buffer = RenderTruncated(c) =>
                /\ HasRootNode(<<"k">>)
                /\ m_parsedData[1].keys[1] =
                      [name |-> <<"k">>, value |-> ArraySentinel,
                       children |-> ExpectedElements(c.elems)]
                /\ MemoryTail = <<>> \/ c.suffix # <<>> =>
                      m_parsedData[1].keys = <<m_parsedData[1].keys[1]>> \o ExpectedRest(c)

C9_Witness ==
    /\ JustParsed
    /\ Buffer = RenderTruncated([elems |-> << <<"1">> >>, sep |-> <<" ">>,
                                 junk |-> <<"2", ",", " ", "3">>, suffix |-> <<>>])
    /\ RootNode(<<"k">>).children = << NewKey(<<"0">>, <<"1">>) >>

\* ---- C10
\* C10: a vcfg_parse call that returns returns failure exactly when the
\* buffer is unset, its length is zero, or the root section could not be
\* allocated, and then the context holds no section; on every other buffer
\* it returns success, also when it stopped before the end of the buffer.
C10_FailureIffNothingToParse ==
    ret.op = "vcfg_parse" =>
        /\ ret.val \in {0, 1}
        /\ ret.val = 0 <=> (m_configBuffer = NullPtr \/ m_configBufferLength = 0 \/ ret.nomem)
        /\ ret.val = 0 => m_parsedData = <<>>
        /\ ret.val = 1 => m_sectionCount >= 1 /\ Len(m_parsedData) = m_sectionCount

C10_Witness ==
    /\ ret.op = "vcfg_parse"
    /\ ret.val = 1
    /\ internalDataPtr < m_configBufferLength

\* ---- C11
\* C11: after a vcfg_open that failed because the file could not be opened
\* or was read short, the context has no buffer configured, whatever it
\* held before: a following vcfg_parse is refused.
C11_FailedOpenLeavesNoBuffer ==
    (ret.op = "vcfg_open" /\ ret.failed \in {"fopen_s", "fread"}) => ParseRefused

\* ---- C12
\* the context holds no buffer, no section and no open file
EmptyContext ==
    /\ m_configBuffer = NullPtr
    /\ m_parsedData = <<>>
    /\ m_sectionCount = 0
    /\ m_currentConfigFile = NullPtr

\* the call that has just returned is a vcfg_clear
Cleared == ret.op = "vcfg_clear" /\ pc = "idle"

\* C12: vcfg_clear is idempotent.  Every vcfg_clear that returns leaves the
\* context empty (no buffer, no section, no open file), and a vcfg_clear of
\* an empty context, be it one that was never parsed or one that was just
\* cleared, frees nothing, closes nothing and leaves the context as it was.
C12_ClearIsIdempotent ==
    /\ [](Cleared => EmptyContext)
    /\ [][(EmptyContext /\ pc = "idle" /\ ret'.op = "vcfg_clear") =>
             /\ ret'.freedBuffer = "none"
             /\ ~ret'.freedBlocks
             /\ ~ret'.closedFile
             /\ UNCHANGED <<m_configBuffer, m_configBufferLength, m_parsedData,
                            m_sectionCount, m_currentConfigFile, bufferOwner, pc>>]_vars

\* a vcfg_clear found nothing to free in a context that held a buffer of
\* five bytes before: it is the second in a row, or follows a failed open
C12_Witness ==
    /\ Cleared
    /\ ret.freedBuffer = "none"
    /\ ~ret.freedBlocks
    /\ m_configBufferLength = 5

\* ---- C13
\* C13: every block the library allocated for the tree is freed exactly
\* once by the vcfg_clear that ends a sequence of calls: outside a running
\* vcfg_parse only vcfg_clear lets go of the section array the context
\* holds (also when vcfg_parse is called twice with no vcfg_clear between),
\* and vcfg_clear frees every block of the tree it finds.
C13_EveryBlockFreedOnce ==
    [][/\ (pc # "parsing" /\ m_parsedData # <<>> /\ ret'.op # "vcfg_clear") =>
              m_parsedData' = m_parsedData
       /\ ret'.op = "vcfg_clear" => ret'.unfreed = 0]_vars

\* ---- C14
\* C14: no call passes to free() a buffer the library did not allocate:
\* what vcfg_clear (also run by the C++ destructor), a second
\* vcfg_set_buffer or vcfg_open frees is never the caller's array.
C14_OnlyOwnBuffersAreFreed ==
    ret.op \in {"vcfg_clear", "vcfg_set_buffer", "vcfg_open"} =>
        ret.freedBuffer # "caller"

\* ---- C15
\* C15: on a parsed context vcfg_get_section returns the root section for a
\* null name and for the empty string, the section with exactly that name
\* (case-sensitive) for any other name, and null when there is none.
C15_SectionLookup ==
    (ret.op = "vcfg_get_section" /\ ~ret.nullDeref /\ pc = "parsed") =>
        IF ret.sectionName \in {NullPtr, <<>>} THEN ret.val = 1
        ELSE IF \E i \in 1..m_sectionCount : m_parsedData[i].name = ret.sectionName
             THEN ret.val # 0 /\ m_parsedData[ret.val].name = ret.sectionName
             ELSE ret.val = 0

\* ---- C16
\* C16: a header [Name] appends a section also when a section of that name
\* exists already; vcfg_get_section(Name) is the one declared first, and a
\* lookup in it finds the keys declared under that first header and no key
\* declared under the later one.
C16_DuplicateHeaderAppends ==
    JustParsed =>
        \A c \in DuplicateCases :
            Buffer = RenderDuplicate(c) =>
                /\ m_sectionCount = 3
                /\ m_parsedData[2].name = <<"S">>
                /\ m_parsedData[3].name = c.again
                /\ vcfg_get_section(m_parsedData, m_sectionCount, <<"S">>) = 2
                /\ \A keyName \in GetKeyArgs :
                      Lookup(<<"S">>, keyName) =
                          IF Holds(c.first, keyName) THEN ValueIn(<<"1">>, keyName)
                          ELSE NullPtr

C16_Witness ==
    /\ JustParsed
    /\ Buffer = RenderDuplicate([first |-> <<KeyK>>, second |-> <<KeyJ, KeyK>>,
                                 again |-> <<"S">>, root |-> <<>>])
    /\ m_parsedData[3].name = <<"S">>
    /\ Lookup(<<"S">>, KeyK) = <<"1", "k">>
    /\ Lookup(<<"S">>, KeyJ) = NullPtr

\* ---- C17
DecimalDigits == {"0", "1", "2", "3", "4", "5", "6", "7", "8", "9"}

RECURSIVE LeadingDigitRun(_)
LeadingDigitRun(str) ==
    IF str # <<>> /\ str[1] \in DecimalDigits
    THEN <<str[1]>> \o LeadingDigitRun(Tail(str))
    ELSE <<>>

RECURSIVE Pow10(_)
Pow10(n) == IF n = 0 THEN 1 ELSE 10 * Pow10(n - 1)

\* the number a run of decimal digits denotes
RECURSIVE Denoted(_)
Denoted(run) ==
    IF run = <<>> THEN 0
    ELSE DigitValue(run[1]) * Pow10(Len(run) - 1) + Denoted(Tail(run))

\* what the text of a value stands for as an integer
ExpectedInt(value) ==
    LET negative == value # <<>> /\ value[1] = "-"
        run == LeadingDigitRun(IF negative THEN Tail(value) ELSE value)
    IN  IF run = <<>> THEN -1
        ELSE IF negative THEN 0 - Denoted(run) ELSE Denoted(run)

\* C17: after parsing k = <value>, vcfg_get_int(NULL, k) returns the signed
\* integer that the run of digits after an optional "-" at the start of the
\* value denotes, and -1 when the value is absent or its first byte after
\* the optional "-" is no digit; vcfg_get_int of a key that is not there
\* returns -1.
C17_IntIsLeadingDigitRun ==
    (ret.op = "vcfg_get_int" /\ ~ret.nullDeref /\ ret.sectionName = NullPtr) =>
        \A value \in IntValues :
            Buffer = RenderInt(value) =>
                ret.val = IF ret.keyName = KeyK THEN ExpectedInt(value) ELSE -1

C17_Witness ==
    /\ ret.op = "vcfg_get_int"
    /\ ret.keyName = KeyK
    /\ Buffer = RenderInt(<<"-", "7", "0">>)
    /\ ret.val = -70

\* ---- C18
\* the value a statement's text assigns: the inside of the quotes, or the
\* bare token
ValueOfText(text) ==
    IF text # <<>> /\ text[1] = "\"" THEN SubSeq(text, 2, Len(text) - 1) ELSE text

ExpectedBool(c, keyName) == IF keyName = KeyK /\ ValueOfText(c.value) = True THEN 1 ELSE 0

\* C18: vcfg_get_bool and vcfg_get_bool_from_node return 1 exactly when the
\* key's value is byte-for-byte "true", and 0 for every other value, for a
\* key with no value and for a key that is not there; with a null parent
\* vcfg_get_bool_from_node looks the key up in the root section.
C18_BoolIsExactlyTrue ==
    \A c \in BoolCases :
        Buffer = RenderBool(c) =>
            /\ (ret.op = "vcfg_get_bool" /\ ~ret.nullDeref) =>
                  /\ ret.val \in {0, 1}
                  /\ (c.place = "root" /\ ret.sectionName = NullPtr) =>
                        ret.val = ExpectedBool(c, ret.keyName)
                  /\ (c.place = "section" /\ ret.sectionName = <<"S">>) =>
                        ret.val = ExpectedBool(c, ret.keyName)
                  /\ (c.place # "root" /\ ret.sectionName = NullPtr) => ret.val = 0
            /\ (ret.op = "vcfg_get_bool_from_node" /\ ~ret.nullDeref) =>
                  /\ ret.val \in {0, 1}
                  /\ (c.place = "object" /\ ret.parentNode # NullNode) =>
                        ret.val = ExpectedBool(c, ret.keyName)
                  /\ (c.place = "root" /\ ret.parentNode = NullNode) =>
                        ret.val = ExpectedBool(c, ret.keyName)
                  /\ (c.place # "root" /\ ret.parentNode = NullNode) => ret.val = 0

C18_Witness ==
    /\ ret.op = "vcfg_get_bool_from_node"
    /\ ret.parentNode # NullNode
    /\ ret.keyName = KeyK
    /\ Buffer = RenderBool([value |-> True, place |-> "object"])
    /\ ret.val = 1

\* ---- C19
\* the array or object parser has stopped with the cursor on its closing
\* bracket and is about to return
StoppedAtCloser ==
    /\ pc = "parsing"
    /\ frames # <<>>
    /\ internalDataPtr < m_configBufferLength
    /\ Byte(parserObj, internalDataPtr) = Closer(frames[Len(frames)].kind)

\* C19: when the array parser stops at "]" or the object parser at "}", the
\* bracket is consumed with the container: the call returns with the cursor
\* past it.
C19_ClosingBracketIsConsumed ==
    StoppedAtCloser =>
        ContainerReturn(parserObj, ParseState).ptr > internalDataPtr

\* ---- C20
\* the sections of a tree and their keys, but for the first key of the root
\* section
Outside(data) ==
    [i \in 1..Len(data) |->
        [name |-> data[i].name,
         keys |-> IF i = 1 /\ data[i].keys # <<>> THEN Tail(data[i].keys)
                  ELSE data[i].keys]]

\* the statement that assigns name a scalar
ScalarTwin(name) == name \o Assign \o <<"v">>

\* C20: the bytes between the brackets of a container never make a section
\* or a key of a section: after parsing k = <container> and what follows
\* it, the sections and the keys other than k are those that parsing
\* k = v and what follows it gives.
C20_ContainerBytesStayInside ==
    JustParsed =>
        /\ \A kinds \in ObjectCases :
              Buffer = RenderObject(kinds) =>
                  Outside(m_parsedData) = Outside(ParsedTree(ScalarTwin(<<"o">>)))
        /\ \A elems \in ArrayCases :
              Buffer = RenderArray(elems) =>
                  Outside(m_parsedData) = Outside(ParsedTree(ScalarTwin(<<"k">>)))
        /\ \A c \in TruncatedCases :
              Buffer = RenderTruncated(c) =>
                  Outside(m_parsedData) =
                      Outside(ParsedTree(ScalarTwin(<<"k">>) \o c.suffix))

\* ---- C21
\* C21: at every point of a parse and after it, the cursor is at most the
\* buffer start plus the buffer length, for every buffer content and
\* whatever bytes lie after the buffer in memory.
C21_CursorStaysInBuffer ==
    pc \in {"parsing", "parsed"} => internalDataPtr <= m_configBufferLength

\* ---- C22
\* The offsets from the buffer start at which a scanner primitive called
\* with the cursor at p reads a byte.
\* skipwhitespace tests *p before p < dataEndPtr: it reads every byte from p
\* to the one it stops at
vcfginternal_skipwhitespace_reads(parser, p) ==
    p..vcfginternal_skipwhitespace(parser, p)

\* skiplinecomment reads *p, *(p + 1) when *p is a slash, the bytes of the
\* line below dataEndPtr, and the byte it stopped at
vcfginternal_skiplinecomment_reads(parser, p) ==
    IF Byte(parser, p) # "/" THEN {p}
    ELSE IF Byte(parser, p + 1) # "/" THEN {p, p + 1}
    ELSE {p, p + 1} \cup (p..SkipUntil(parser, p, "\n"))

\* the loop of skipblockcomment reads *i below dataEndPtr, and *(i + 1)
\* when *i is a star
RECURSIVE BlockCommentScan_reads(_, _)
BlockCommentScan_reads(parser, i) ==
    IF i < dataEndPtr(parser)
    THEN IF Byte(parser, i) = "*"
         THEN {i, i + 1} \cup (IF Byte(parser, i + 1) = "/" THEN {}
                               ELSE BlockCommentScan_reads(parser, i + 1))
         ELSE {i} \cup BlockCommentScan_reads(parser, i + 1)
    ELSE {}

vcfginternal_skipblockcomment_reads(parser, p) ==
    IF Byte(parser, p) # "/" THEN {p}
    ELSE IF Byte(parser, p + 1) # "*" THEN {p, p + 1}
    ELSE {p, p + 1} \cup BlockCommentScan_reads(parser, p + 2)

\* skipcomments calls skiplinecomment at p, then skipblockcomment where that
\* left the cursor
vcfginternal_skipcomments_reads(parser, p) ==
    vcfginternal_skiplinecomment_reads(parser, p)
    \cup vcfginternal_skipblockcomment_reads(parser,
             vcfginternal_skiplinecomment(parser, p))

ScannerReads(parser, p) ==
    vcfginternal_skipwhitespace_reads(parser, p)
    \cup vcfginternal_skipcomments_reads(parser, p)

\* C22: no scanner primitive (skipwhitespace, skiplinecomment,
\* skipblockcomment, skipcomments) reads a byte at an offset greater than or
\* equal to the buffer length, for any buffer content and any cursor
\* position; stated here for the cursor positions below the buffer length,
\* the ones vcfg_parse calls the scanners at.
C22_ScannersReadInsideBuffer ==
    m_configBuffer # NullPtr =>
        \A p \in 0..(m_configBufferLength - 1) :
            \A offset \in ScannerReads(parserObj, p) : offset < m_configBufferLength

\* ---- C23
\* every key node of the tree, whatever its depth
RECURSIVE NodesOfSections(_)
NodesOfSections(data) ==
    IF data = <<>> THEN <<>>
    ELSE KeysBelow(Head(data).keys) \o NodesOfSections(Tail(data))

AllNodes == { NodesOfSections(m_parsedData)[i] : i \in 1..Len(NodesOfSections(m_parsedData)) }

IsScalarNode(node) == node.value # NullPtr /\ node.children = <<>>

IsContainerNode(node) ==
    node.value \in {ArraySentinel, ObjectSentinel} /\ node.children # <<>>

----------------------------------------------------------------------------
(* Malformed pairs and statements *)

\* ---- an object whose first pair is malformed: o = { <bad><sep>b = 2 }
\* a key with no "=", a key and a value with no "=", an empty quoted key, an
\* empty key
BadPairs == { <<"a">>, <<"a", " ", "1">>, <<"\"", "\"", " ", "=", " ", "1">>,
              <<"=", " ", "1">> }
PairSeparators == { <<",", " ">>, <<" ", ",", " ">>, <<" ">>, NL }
BadPairCases == [bad : BadPairs, sep : PairSeparators, suffix : {<<>>, NL \o OtherStatement}]

GoodPair == <<"b">> \o Assign \o <<"2">>

RenderBadPair(c) ==
    <<"o">> \o Assign \o <<"{", " ">> \o c.bad \o c.sep \o GoodPair \o <<" ", "}">>
    \o c.suffix

\* ---- a top-level statement that is malformed, then a well-formed one in
\* ---- the same section or under a header: <bad><sep>[S]\n j = w
BadStatements == { <<"k">>, <<"k", " ", "v">>, <<"\"", "\"", " ", "=", " ", "v">>,
                   <<"=", " ", "v">> }
BadStatementCases ==
    [bad : BadStatements, sep : {NL, <<" ">>}, header : {<<>>, SectionS},
     before : {<<>>, <<"i">> \o Assign \o <<"u">> \o NL}]

RenderBadStatement(c) == c.before \o c.bad \o c.sep \o c.header \o OtherStatement

\* ---- a name assigned twice: in one section, in two sections, in one object
SameKey == <<"k">> \o Assign \o <<"v">> \o NL \o <<"k">> \o Assign \o <<"w">>
SameKeyInputs ==
    { SameKey,
      SectionS \o SameKey,
      <<"k">> \o Assign \o <<"v">> \o NL \o SectionS \o <<"k">> \o Assign \o <<"w">>,
      <<"o">> \o Assign \o <<"{", " ", "a">> \o Assign \o <<"1">> \o CommaSp
          \o <<"a">> \o Assign \o <<"2", " ", "}">> }

\* ---- an empty header before a statement: [] j = w, at the start of the
\* ---- buffer, after a statement of the root section, under [S]
EmptyHeader == <<"[", "]">>
FirstStatement == <<"i">> \o Assign \o <<"u">> \o NL
EmptyHeaderCases ==
    [before : {<<>>, FirstStatement, SectionS, SectionS \o FirstStatement},
     gap : {<<>>, <<" ">>, NL}]

RenderEmptyHeader(c) == c.before \o EmptyHeader \o c.gap \o OtherStatement

MalformedInputs ==
    { RenderBadPair(c) : c \in BadPairCases }
    \cup { RenderBadStatement(c) : c \in BadStatementCases }
    \cup SameKeyInputs
    \cup { RenderEmptyHeader(c) : c \in EmptyHeaderCases }

\* the first buffer of a context
vcfg_set_buffer_malformed ==
    /\ pc = "idle"
    /\ m_sectionCount = 0
    /\ m_configBuffer = NullPtr
    /\ \E inputBuffer \in MalformedInputs, tail \in Tails :
          /\ m_configBuffer' = inputBuffer \o tail
          /\ m_configBufferLength' = Len(inputBuffer)
    /\ ret' = [op |-> "vcfg_set_buffer", val |-> 0, freedBuffer |-> "none"]
    /\ bufferOwner' = "caller"
    /\ UNCHANGED <<m_parsedData, m_sectionCount, pc, internalDataPtr, frames,
                   m_currentConfigFile>>

DropNext ==
    \/ vcfg_set_buffer_malformed
    \/ vcfg_parse_fail
    \/ vcfg_parse_nomem
    \/ vcfg_parse_begin
    \/ vcfg_parse_loop
    \/ vcfg_parse_return
    \/ vcfginternal_parseobject_loop
    \/ vcfginternal_container_return

DropSpec == Init /\ [][DropNext]_vars

\* ---- C24
\* C24: inside an object, a pair with an empty key or a missing "=" is not
\* appended as a child, and the well-formed pairs that follow it in the same
\* object are still parsed and appended: o = { <bad pair> b = 2 } leaves
\* node o with the one child b = 2.
C24_ObjectResumesAfterDroppedPair ==
    JustParsed =>
        \A c \in BadPairCases :
            Buffer = RenderBadPair(c) =>
                /\ HasRootNode(<<"o">>)
                /\ RootNode(<<"o">>).children = << NewKey(<<"b">>, <<"2">>) >>

\* ---- C25
\* C25: at top level, a statement with an empty key or a missing "=" is
\* dropped without adding a key and parsing continues: the statement j = w
\* that follows it, in the same section or under the header [S], is parsed
\* and stored, as is a statement before it.
C25_ParseContinuesAfterDroppedStatement ==
    JustParsed =>
        \A c \in BadStatementCases :
            Buffer = RenderBadStatement(c) =>
                LET sectionName == IF c.header = <<>> THEN NullPtr ELSE <<"S">>
                IN  /\ vcfg_get_section(m_parsedData, m_sectionCount, sectionName) # 0
                    /\ Lookup(sectionName, <<"j">>) = <<"w">>
                    /\ c.before # <<>> => Lookup(NullPtr, <<"i">>) = <<"u">>

----------------------------------------------------------------------------
(* Allocation failures while the tree grows *)

NoMemInputs ==
    { SectionS \o <<"k">> \o Assign \o <<"v">>,
      <<"i">> \o Assign \o <<"u">> \o NL \o SectionS \o <<"k">> \o Assign \o <<"v">>,
      SectionS \o SectionT \o OtherStatement,
      <<"k">> \o Assign \o <<"v">> \o NL \o OtherStatement,
      <<"o">> \o Assign \o <<"{", " ">> \o <<"a">> \o Assign \o <<"1">> \o CommaSp
          \o GoodPair \o <<" ", "}">> }

\* the first buffer of a context
vcfg_set_buffer_small ==
    /\ pc = "idle"
    /\ m_sectionCount = 0
    /\ m_configBuffer = NullPtr
    /\ \E inputBuffer \in NoMemInputs, tail \in Tails :
          /\ m_configBuffer' = inputBuffer \o tail
          /\ m_configBufferLength' = Len(inputBuffer)
    /\ ret' = [op |-> "vcfg_set_buffer", val |-> 0, freedBuffer |-> "none"]
    /\ bufferOwner' = "caller"
    /\ UNCHANGED <<m_parsedData, m_sectionCount, pc, internalDataPtr, frames,
                   m_currentConfigFile>>

\* the allocation that returns null while an entry is added to an array:
\* the realloc of the array, or the malloc of the new entry's name
FailingCalls == {"realloc", "malloc"}

\* When the malloc of the name fails the array has been reallocated and the
\* new pointer is dropped: the context keeps the old one.  If realloc moved
\* the block (it can when the array was not empty) the old pointer is
\* dangling, and what is read and written through it from then on either
\* still works on the stale block or stops the process.
AfterFailure(call, arrayWasEmpty) ==
    IF call = "malloc" /\ ~arrayWasEmpty THEN {"parsing", "crashed"} ELSE {"parsing"}

\* a failed allocation inside function leaves the cursor at ptr, the count
\* decremented back and the tree as it was
FailsIn(function, call, arrayWasEmpty, ptr) ==
    /\ \E after \in AfterFailure(call, arrayWasEmpty) : pc' = after
    /\ internalDataPtr' = ptr
    /\ ret' = [op |-> call, val |-> 0, in |-> function]
    /\ UNCHANGED <<m_configBuffer, m_configBufferLength, m_parsedData, m_sectionCount,
                   frames, bufferOwner, m_currentConfigFile>>

\* nothing to skip at the cursor: the pass reaches createsection
AtStatement(parser, p) ==
    /\ vcfginternal_skipwhitespace(parser, p) = p
    /\ vcfginternal_skipcomments(parser, p) = p

\* a pass of vcfg_parse's loop in which createsection has consumed a
\* header with a name and fails to allocate: --m_sectionCount and
\* return skippedCount, the header's bytes
vcfginternal_createsection_nomem ==
    /\ pc = "parsing"
    /\ frames = <<>>
    /\ internalDataPtr < m_configBufferLength
    /\ AtStatement(parserObj, internalDataPtr)
    /\ vcfginternal_createsection(parserObj, internalDataPtr).created
    /\ \E call \in FailingCalls :
          FailsIn("vcfginternal_createsection", call, FALSE,
                  vcfginternal_createsection(parserObj, internalDataPtr).ptr)

\* a pass of vcfg_parse's loop in which parsekeyvalue has read a key and
\* its "=" and fails to allocate: keyCount-- and return skippedCount, the
\* bytes up to the "="
vcfginternal_parsekeyvalue_nomem ==
    /\ pc = "parsing"
    /\ frames = <<>>
    /\ internalDataPtr < m_configBufferLength
    /\ AtStatement(parserObj, internalDataPtr)
    /\ vcfginternal_createsection(parserObj, internalDataPtr).ptr = internalDataPtr
    /\ LET k == ScanKey(parserObj, internalDataPtr)
       IN  /\ k.length # 0
           /\ Byte(parserObj, k.ptr) = "="
           /\ \E call \in FailingCalls :
                 FailsIn("vcfginternal_parsekeyvalue", call,
                         m_parsedData[m_sectionCount].keys = <<>>, k.ptr)

\* a pass of the object loop in which parseobject_keyvalue has read a key
\* and its "=" and fails to allocate: childCount-- and return skippedCount;
\* the loop then finds no comma and skips to the closing brace
vcfginternal_parseobject_keyvalue_nomem ==
    /\ pc = "parsing"
    /\ InContainerLoop(parserObj, ParseState)
    /\ frames[Len(frames)].kind = "object"
    /\ AtStatement(parserObj, internalDataPtr)
    /\ LET k == ScanKey(parserObj, internalDataPtr)
       IN  /\ k.length # 0
           /\ Byte(parserObj, k.ptr) = "="
           /\ \E call \in FailingCalls :
                 FailsIn("vcfginternal_parseobject_keyvalue", call,
                         ChildCountAt(m_parsedData[m_sectionCount].keys, Len(frames)) = 0,
                         AfterElement(parserObj, k.ptr, "object").ptr)

NoMemNext ==
    \/ vcfg_set_buffer_small
    \/ vcfg_parse_fail
    \/ vcfg_parse_nomem
    \/ vcfg_parse_begin
    \/ vcfg_parse_loop
    \/ vcfg_parse_return
    \/ vcfginternal_parseobject_loop
    \/ vcfginternal_container_return
    \/ vcfginternal_createsection_nomem
    \/ vcfginternal_parsekeyvalue_nomem
    \/ vcfginternal_parseobject_keyvalue_nomem

NoMemSpec == Init /\ [][NoMemNext]_vars

\* ---- C26
\* C26: when an allocation fails while a section, a top-level key or a
\* child is being added, the count is restored, the arrays the context
\* holds stay valid, and the function consumes no byte in that step; no
\* completed parse has attributed a key to another section than the one
\* whose header precedes it.
C26_FailedAllocationConsumesNothing ==
    /\ [][(ret'.op \in FailingCalls) =>
             /\ m_sectionCount' = m_sectionCount
             /\ m_parsedData' = m_parsedData
             /\ pc' # "crashed"
             /\ internalDataPtr' = internalDataPtr]_vars
    /\ [](JustParsed /\ Len(Buffer) >= Len(SectionS)
              /\ SubSeq(Buffer, 1, Len(SectionS)) = SectionS =>
                  m_parsedData[1].keys = <<>>)

\* ---- C27
\* the offset of the first "]" at or after p, the buffer length if none
RECURSIVE NextBracket(_)
NextBracket(p) ==
    IF p < m_configBufferLength /\ m_configBuffer[p + 1] # "]" THEN NextBracket(p + 1) ELSE p

\* the bytes between the "[" that opens the buffer and the first "]" after
\* it, or the buffer end
HeaderName == SubSeq(Buffer, 2, NextBracket(1))

\* C27: the name of the section a top-level header creates is exactly the
\* bytes after the opening "[" up to, not including, the first following
\* "]", or up to the buffer end when no "]" follows, spaces included; stated
\* for the header a buffer opens with.
C27_SectionNameIsHeaderText ==
    (JustParsed /\ Buffer # <<>> /\ Buffer[1] = "[" /\ HeaderName # <<>>) =>
        /\ m_sectionCount >= 2
        /\ m_parsedData[2].name = HeaderName

\* ---- C28
\* no two entries of a key array have the same name
DistinctNames(keys) ==
    \A i, j \in 1..Len(keys) : i # j => keys[i].name # keys[j].name

\* C28: in the tree a completed parse leaves, no two keys of one section
\* and no two children of one object or array node have the same name.
C28_SiblingNamesAreUnique ==
    JustParsed =>
        /\ \A s \in 1..Len(m_parsedData) : DistinctNames(m_parsedData[s].keys)
        /\ \A node \in AllNodes : DistinctNames(node.children)

\* ---- C29
IsName(name) == name # NullPtr /\ name # <<>>

EmptyKeyPair == <<"\"", "\"", " ", "=", " ", "1">>
EmptyKeyStatements == { <<"\"", "\"", " ", "=", " ", "v">>, <<"=", " ", "v">> }

\* the section that is current when the empty header of a case is met, and
\* the keys it has when the parse is over
SectionBefore(c) ==
    IF c.before \in {SectionS, SectionS \o FirstStatement} THEN <<"S">> ELSE NullPtr

KeysAround(c) ==
    (IF c.before \in {FirstStatement, SectionS \o FirstStatement}
     THEN << NewKey(<<"i">>, <<"u">>) >> ELSE <<>>)
    \o << NewKey(<<"j">>, <<"w">>) >>

\* C29: in the tree a completed parse leaves, the root section is the first
\* entry and every other section and every key node has a non-empty name;
\* an empty header [] creates no section, so that the statement after it is
\* stored in the section that was current before it; a pair or a statement
\* with an empty key adds no node.
C29_NamesAreNonEmpty ==
    JustParsed =>
        /\ m_sectionCount >= 1
        /\ m_parsedData[1].name = NullPtr
        /\ \A s \in 2..Len(m_parsedData) : IsName(m_parsedData[s].name)
        /\ \A node \in AllNodes : IsName(node.name)
        /\ \A c \in EmptyHeaderCases :
              Buffer = RenderEmptyHeader(c) =>
                  /\ m_sectionCount = IF SectionBefore(c) = NullPtr THEN 1 ELSE 2
                  /\ m_parsedData[m_sectionCount].name = SectionBefore(c)
                  /\ m_parsedData[m_sectionCount].keys = KeysAround(c)
        /\ \A c \in BadPairCases :
              (c.bad = EmptyKeyPair /\ Buffer = RenderBadPair(c)) =>
                  /\ HasRootNode(<<"o">>)
                  /\ \A i \in 1..Len(RootNode(<<"o">>).children) :
                        RootNode(<<"o">>).children[i].value # <<"1">>
        /\ \A c \in BadStatementCases :
              (c.bad \in EmptyKeyStatements /\ Buffer = RenderBadStatement(c)) =>
                  \A node \in AllNodes : node.value # <<"v">>

\* [S], a statement, an empty header and a statement: both statements are
\* keys of S and there is no third section
C29_Witness ==
    /\ JustParsed
    /\ Buffer = RenderEmptyHeader([before |-> SectionS \o FirstStatement, gap |-> NL])
    /\ m_sectionCount = 2
    /\ Lookup(<<"S">>, <<"i">>) = <<"u">>
    /\ Lookup(<<"S">>, <<"j">>) = <<"w">>

----------------------------------------------------------------------------
(* Every getter, on small trees *)

\* the double result / 10^decimalPlaces, kept as the two integers the
\* conversion computes it from
Float(result, decimalPlaces) == [result |-> result, decimalPlaces |-> decimalPlaces]

\* while (*str != '\0') { ... } of vcfginternal_strtofloat
RECURSIVE FloatLoop(_, _, _, _, _)
FloatLoop(str, i, result, isDecimalPart, decimalPlaces) ==
    LET ch == CharAt(str, i)
    IN  IF ch = NUL \/ (~VCFG_IS_NUMBER(ch) /\ ch # ".") \/ (isDecimalPart /\ ch = ".")
        THEN Float(result, decimalPlaces)
        ELSE IF ch = "."
        THEN FloatLoop(str, i + 1, result, TRUE, decimalPlaces)
        ELSE FloatLoop(str, i + 1, result * 10 + DigitValue(ch), isDecimalPart,
                       IF isDecimalPart THEN decimalPlaces + 1 ELSE decimalPlaces)

vcfginternal_strtofloat(str) ==
    IF str = NullPtr THEN Float(-1, 0)
    ELSE LET negative == CharAt(str, 0) = "-"
             first == IF negative THEN 1 ELSE 0
         IN  IF ~VCFG_IS_NUMBER(CharAt(str, first)) /\ CharAt(str, first) # "."
             THEN Float(-1, 0)
             ELSE LET r == FloatLoop(str, first, 0, FALSE, 0)
                  IN  Float(IF negative THEN 0 - r.result ELSE r.result, r.decimalPlaces)

\* vcfg_get_node_from_node with a parent that is not null: a pointer to a
\* child is the parent's pointer and the child's index
NodeInNode(data, parentNode, keyName) ==
    LET children == data[parentNode[1]].keys[parentNode[2]].children
        i == FirstNamed(children, Len(children), keyName)
    IN  IF i = 0 THEN NullNode ELSE parentNode \o <<i>>

QueryInputs ==
    { <<"k">> \o Assign \o <<"v">>,
      SectionS \o <<"k">> \o Assign \o <<"7">>,
      <<"k">> \o Assign \o <<"-", "1", ".", "5">> \o NL
          \o <<"o">> \o Assign \o <<"{", " ">> \o <<"k">> \o Assign \o True \o CommaSp
          \o <<"j">> \o Assign \o <<"2", ".", "5">> \o <<" ", "}">>,
      <<"o">> \o Assign \o <<"{", " ">> \o <<"k">> \o Assign \o <<"1", "2">>
          \o <<" ", "}">> }

\* the first buffer of a context
vcfg_set_buffer_query ==
    /\ pc = "idle"
    /\ m_sectionCount = 0
    /\ m_configBuffer = NullPtr
    /\ \E inputBuffer \in QueryInputs, tail \in Tails :
          /\ m_configBuffer' = inputBuffer \o tail
          /\ m_configBufferLength' = Len(inputBuffer)
    /\ ret' = [op |-> "vcfg_set_buffer", val |-> 0, freedBuffer |-> "none"]
    /\ bufferOwner' = "caller"
    /\ UNCHANGED <<m_parsedData, m_sectionCount, pc, internalDataPtr, frames,
                   m_currentConfigFile>>

\* the string a _from_node getter converts: with a null parent it is
\* vcfg_get_string(parserObj, 0, keyName)
StringFromNode(parentNode, keyName) ==
    IF parentNode = NullNode THEN StringOrNull(NullPtr, keyName)
    ELSE StringInNode(m_parsedData, parentNode, keyName)

\* a _from_node getter reads through a null section pointer only on its way
\* through the root section
FromNodeDereferencesNull(parentNode) ==
    parentNode = NullNode /\ DereferencesNull(m_parsedData, m_sectionCount, NullPtr)

vcfg_get_float ==
    /\ pc \in {"idle", "parsed"}
    /\ \E sectionName \in GetSectionArgs, keyName \in GetKeyArgs :
          GetterReturns([op |-> "vcfg_get_float", sectionName |-> sectionName,
                         keyName |-> keyName],
                        DereferencesNull(m_parsedData, m_sectionCount, sectionName),
                        vcfginternal_strtofloat(StringOrNull(sectionName, keyName)),
                        <<Float(-1, 0), Float(0, 0)>>)

vcfg_get_node_from_node ==
    /\ pc \in {"idle", "parsed"}
    /\ \E parentNode \in ParentArgs, keyName \in GetKeyArgs :
          GetterReturns([op |-> "vcfg_get_node_from_node", parentNode |-> parentNode,
                         keyName |-> keyName],
                        FromNodeDereferencesNull(parentNode),
                        IF FromNodeDereferencesNull(parentNode) THEN NullNode
                        ELSE IF parentNode = NullNode
                        THEN NodeInSection(m_parsedData, 1, keyName)
                        ELSE NodeInNode(m_parsedData, parentNode, keyName),
                        <<NullNode, <<1, 1>>>>)

vcfg_get_string_from_node ==
    /\ pc \in {"idle", "parsed"}
    /\ \E parentNode \in ParentArgs, keyName \in GetKeyArgs :
          GetterReturns([op |-> "vcfg_get_string_from_node", parentNode |-> parentNode,
                         keyName |-> keyName],
                        FromNodeDereferencesNull(parentNode),
                        StringFromNode(parentNode, keyName),
                        <<NullPtr, Garbage>>)

vcfg_get_int_from_node ==
    /\ pc \in {"idle", "parsed"}
    /\ \E parentNode \in ParentArgs, keyName \in GetKeyArgs :
          GetterReturns([op |-> "vcfg_get_int_from_node", parentNode |-> parentNode,
                         keyName |-> keyName],
                        FromNodeDereferencesNull(parentNode),
                        vcfginternal_strtoint(StringFromNode(parentNode, keyName)),
                        <<-1, 0>>)

vcfg_get_float_from_node ==
    /\ pc \in {"idle", "parsed"}
    /\ \E parentNode \in ParentArgs, keyName \in GetKeyArgs :
          GetterReturns([op |-> "vcfg_get_float_from_node", parentNode |-> parentNode,
                         keyName |-> keyName],
                        FromNodeDereferencesNull(parentNode),
                        vcfginternal_strtofloat(StringFromNode(parentNode, keyName)),
                        <<Float(-1, 0), Float(0, 0)>>)

QueryNext ==
    \/ vcfg_set_buffer_query
    \/ vcfg_parse_fail
    \/ vcfg_parse_nomem
    \/ vcfg_parse_begin
    \/ vcfg_parse_loop
    \/ vcfg_parse_return
    \/ vcfginternal_parseobject_loop
    \/ vcfginternal_container_return
    \/ vcfg_get_section_call
    \/ vcfg_get_node
    \/ vcfg_get_string
    \/ vcfg_get_int
    \/ vcfg_get_float
    \/ vcfg_get_bool
    \/ vcfg_get_node_from_node
    \/ vcfg_get_string_from_node
    \/ vcfg_get_int_from_node
    \/ vcfg_get_float_from_node
    \/ vcfg_get_bool_from_node

QuerySpec == Init /\ [][QueryNext]_vars

\* ---- C30
GetterOps ==
    { "vcfg_get_section", "vcfg_get_node", "vcfg_get_string", "vcfg_get_int",
      "vcfg_get_float", "vcfg_get_bool", "vcfg_get_node_from_node",
      "vcfg_get_string_from_node", "vcfg_get_int_from_node", "vcfg_get_float_from_node",
      "vcfg_get_bool_from_node" }

\* C30: every getter leaves the whole context as it was (the buffer, its
\* length, the section list and every node), whatever it returns, and no
\* step of vcfg_parse changes a byte of the source buffer or its length.
C30_GettersAndParseLeaveTheirInput ==
    /\ [][ret'.op \in GetterOps =>
             UNCHANGED <<m_configBuffer, m_configBufferLength, m_parsedData,
                         m_sectionCount, m_currentConfigFile, bufferOwner>>]_vars
    /\ [][(pc = "parsing" \/ pc' = "parsing" \/ ret'.op = "vcfg_parse") =>
             UNCHANGED <<m_configBuffer, m_configBufferLength>>]_vars

\* vcfg_get_float_from_node has found j = 2.5 in node o of a parsed tree
\* that holds sections, keys and children
C30_Witness ==
    /\ pc = "parsed"
    /\ ret.op = "vcfg_get_float_from_node"
    /\ ret.parentNode # NullNode
    /\ ret.keyName = KeyJ
    /\ ret.val = Float(25, 1)
    /\ HasRootNode(<<"o">>)
    /\ Len(RootNode(<<"o">>).children) = 2

====
